---- MODULE Spec2Model ----
\* Model of the mutation generation engine (generateMutants and its four
\* collector passes) and of the grouping engine (groupMutantsBySignature).
\*
\* Strings are sequences of one-character strings, so that concatenation,
\* whitespace normalisation and the '|' delimiter of the signature are computed
\* character by character as the code computes them.
EXTENDS Integers, Sequences, FiniteSets, TLC

VARIABLES args, entryPoint, options, disk, git, changedFilesCalls, calls, pc, filePaths,
          fileIdx, currentId, allMutants, mutants, groups

vars == <<args, entryPoint, options, disk, git, changedFilesCalls, calls, pc, filePaths,
          fileIdx, currentId, allMutants, mutants, groups>>

\* ---------------------------------------------------------------- bounds
\* Most statements of a source file.
MaxStatements == 2

\* Longest mutant sequence handed to groupMutantsBySignature by a direct caller.
MaxMutants == 3

\* Most calls of groupMutantsBySignature one caller makes in a row.
MaxCalls == 3

\* ---------------------------------------------------------------- strings
\* The characters the regular expression class \s matches (a representative set).
Whitespace == {" ", "\t", "\n"}

RECURSIVE Concat(_)
\* Concatenation of a sequence of strings (a template literal's parts).
Concat(parts) ==
  IF parts = <<>> THEN <<>> ELSE Head(parts) \o Concat(Tail(parts))

RECURSIVE CollapseWhitespace(_, _)
\* s.replace(/\s+/g, " ") from position i on: every maximal run of whitespace
\* becomes one space.
CollapseWhitespace(s, i) ==
  IF i > Len(s) THEN <<>>
  ELSE IF s[i] \in Whitespace
       THEN (IF i > 1 /\ s[i - 1] \in Whitespace THEN <<>> ELSE <<" ">>)
            \o CollapseWhitespace(s, i + 1)
       ELSE <<s[i]>> \o CollapseWhitespace(s, i + 1)

RECURSIVE TrimStart(_)
TrimStart(s) ==
  IF s # <<>> /\ Head(s) \in Whitespace THEN TrimStart(Tail(s)) ELSE s

RECURSIVE TrimEnd(_)
TrimEnd(s) ==
  IF s # <<>> /\ s[Len(s)] \in Whitespace THEN TrimEnd(SubSeq(s, 1, Len(s) - 1)) ELSE s

\* String.prototype.trim
Trim(s) == TrimEnd(TrimStart(s))

\* exprText.replace(/\s+/g, " ").trim()
Normalize(exprText) == Trim(CollapseWhitespace(exprText, 1))

\* ---------------------------------------------------------------- mutator names
BinaryOperator == <<"B", "i", "n", "a", "r", "y", "O", "p", "e", "r", "a", "t", "o", "r">>
BoundaryCondition == <<"B", "o", "u", "n", "d", "a", "r", "y", "C", "o", "n", "d", "i", "t", "i", "o", "n">>
UnaryOperator == <<"U", "n", "a", "r", "y", "O", "p", "e", "r", "a", "t", "o", "r">>
BooleanLiteral == <<"B", "o", "o", "l", "e", "a", "n", "L", "i", "t", "e", "r", "a", "l">>
ConditionalRemoval == <<"C", "o", "n", "d", "i", "t", "i", "o", "n", "a", "l", "R", "e", "m", "o", "v", "a", "l">>

\* ---------------------------------------------------------------- grouping
\* mutant.expressionText || mutant.original: the optional field is absent when
\* hasExpressionText is FALSE, and an empty string is falsy as well.
ExprTextOrOriginal(mutant) ==
  IF mutant.hasExpressionText /\ mutant.expressionText # <<>>
  THEN mutant.expressionText
  ELSE mutant.original

\* Signature, were the file name part of the key.
SignatureWithFileName(mutant) ==
  Concat(<<mutant.mutatorName, <<"|">>, mutant.original, <<"|">>,
           mutant.replacement, <<"|">>, Normalize(ExprTextOrOriginal(mutant)),
           <<"|">>, mutant.fileName>>)

\* `${mutatorName}|${original}|${replacement}|${normalized}`
Signature(mutant) ==
  Concat(<<mutant.mutatorName, <<"|">>, mutant.original, <<"|">>,
           mutant.replacement, <<"|">>, Normalize(ExprTextOrOriginal(mutant))>>)

\* groups.get(signature): the position of the group with that key in the Map's
\* insertion order, 0 when there is none.
MapGet(gs, signature) ==
  IF \E k \in 1..Len(gs) : gs[k].signature = signature
  THEN CHOOSE k \in 1..Len(gs) : gs[k].signature = signature
  ELSE 0

\* The group created for the first mutant of a signature. instances holds
\* references to the input's mutant objects: the position i of the object in the
\* input sequence stands for the reference.
NewGroup(ms, i) ==
  [signature |-> Signature(ms[i]),
   mutatorName |-> ms[i].mutatorName,
   original |-> ms[i].original,
   replacement |-> ms[i].replacement,
   description |-> ms[i].description,
   expressionText |-> Normalize(ExprTextOrOriginal(ms[i])),
   instances |-> <<i>>]

RECURSIVE GroupLoopDropsRepeats(_, _, _)
\* GroupLoop, were a mutant of a known signature not pushed to the instances.
GroupLoopDropsRepeats(ms, i, gs) ==
  IF i > Len(ms) THEN gs
  ELSE LET existing == MapGet(gs, Signature(ms[i]))
       IN IF existing # 0
          THEN GroupLoopDropsRepeats(ms, i + 1, gs)
          ELSE GroupLoopDropsRepeats(ms, i + 1, Append(gs, NewGroup(ms, i)))

RECURSIVE GroupLoopOverwrites(_, _, _)
\* GroupLoop, were the group of a known signature set again from the current
\* mutant (with the instances carried over) instead of pushed to.
GroupLoopOverwrites(ms, i, gs) ==
  IF i > Len(ms) THEN gs
  ELSE LET existing == MapGet(gs, Signature(ms[i]))
       IN IF existing # 0
          THEN GroupLoopOverwrites(ms, i + 1,
                 [gs EXCEPT ![existing] =
                    [NewGroup(ms, i) EXCEPT !.instances = Append(gs[existing].instances, i)]])
          ELSE GroupLoopOverwrites(ms, i + 1, Append(gs, NewGroup(ms, i)))

RECURSIVE GroupLoop(_, _, _)
\* The for loop of groupMutantsBySignature from input position i on.
GroupLoop(ms, i, gs) ==
  IF i > Len(ms) THEN gs
  ELSE LET existing == MapGet(gs, Signature(ms[i]))
       IN IF existing # 0
          THEN GroupLoop(ms, i + 1,
                 [gs EXCEPT ![existing].instances = Append(@, i)])
          ELSE GroupLoop(ms, i + 1, Append(gs, NewGroup(ms, i)))

\* Array.from(groups.values()): the groups in insertion order.
groupMutantsBySignature(ms) == GroupLoop(ms, 1, <<>>)

\* ---------------------------------------------------------------- operator tables
\* BINARY_OPERATOR_MUTATIONS: operator text -> replacements, in table order.
\* An operator without an entry (undefined in the code) maps to <<>> here, and
\* HasBinaryEntry tells the two apart.
BinaryTableKeys ==
  {<<"+">>, <<"-">>, <<"*">>, <<"/">>, <<"%">>, <<"=", "=", "=">>, <<"!", "=", "=">>,
   <<"=", "=">>, <<"!", "=">>, <<">">>, <<"<">>, <<">", "=">>, <<"<", "=">>,
   <<"&", "&">>, <<"|", "|">>}

\* HasBinaryEntry, were "%" missing from the table.
HasBinaryEntryExceptModulo(operator) == operator \in BinaryTableKeys \ {<<"%">>}

\* if (mutations), line 107: the table has an entry for the operator.
HasBinaryEntry(operator) == operator \in BinaryTableKeys

BINARY_OPERATOR_MUTATIONS(operator) ==
  CASE operator = <<"+">> -> << <<"-">> >>
    [] operator = <<"-">> -> << <<"+">> >>
    [] operator = <<"*">> -> << <<"/">> >>
    [] operator = <<"/">> -> << <<"*">> >>
    [] operator = <<"%">> -> << <<"*">> >>
    [] operator = <<"=", "=", "=">> -> << <<"!", "=", "=">> >>
    [] operator = <<"!", "=", "=">> -> << <<"=", "=", "=">> >>
    [] operator = <<"=", "=">> -> << <<"!", "=">> >>
    [] operator = <<"!", "=">> -> << <<"=", "=">> >>
    [] operator = <<">">> -> << <<">", "=">>, <<"<">>, <<"<", "=">> >>
    [] operator = <<"<">> -> << <<"<", "=">>, <<">">>, <<">", "=">> >>
    [] operator = <<">", "=">> -> << <<">">>, <<"<">>, <<"<", "=">> >>
    [] operator = <<"<", "=">> -> << <<"<">>, <<">">>, <<">", "=">> >>
    [] operator = <<"&", "&">> -> << <<"|", "|">> >>
    [] operator = <<"|", "|">> -> << <<"&", "&">> >>
    [] OTHER -> <<>>

\* IsBoundaryOperator, were ">=" and "<=" left out of the list.
IsBoundaryOperatorStrictOnly(operator) == operator \in {<<">">>, <<"<">>}

\* [">", "<", ">=", "<="].includes(operator)
IsBoundaryOperator(operator) ==
  operator \in {<<">">>, <<"<">>, <<">", "=">>, <<"<", "=">>}

\* UNARY_OPERATOR_MUTATIONS is keyed by the operator's SyntaxKind.
UnaryTableKeys ==
  {"ExclamationToken", "MinusToken", "PlusToken", "PlusPlusToken", "MinusMinusToken"}

\* HasUnaryEntry, were the unary plus missing from the table.
HasUnaryEntryExceptPlus(operator) == operator \in UnaryTableKeys \ {"PlusToken"}

\* if (mutation), line 145: the table has an entry for the operator kind.
HasUnaryEntry(operator) == operator \in UnaryTableKeys

UNARY_OPERATOR_MUTATIONS(operator) ==
  CASE operator = "ExclamationToken" -> [original |-> <<"!">>, replacements |-> << <<>> >>]
    [] operator = "MinusToken" -> [original |-> <<"-">>, replacements |-> << <<>> >>]
    [] operator = "PlusToken" -> [original |-> <<"+">>, replacements |-> << <<"-">> >>]
    [] operator = "PlusPlusToken" -> [original |-> <<"+", "+">>, replacements |-> << <<"-", "-">> >>]
    [] operator = "MinusMinusToken" -> [original |-> <<"-", "-">>, replacements |-> << <<"+", "+">> >>]
    [] OTHER -> [original |-> <<>>, replacements |-> <<>>]

\* The source text of a prefix operator of the given SyntaxKind.
PrefixOperatorText(operator) ==
  CASE operator = "ExclamationToken" -> <<"!">>
    [] operator = "MinusToken" -> <<"-">>
    [] operator = "PlusToken" -> <<"+">>
    [] operator = "PlusPlusToken" -> <<"+", "+">>
    [] operator = "MinusMinusToken" -> <<"-", "-">>
    [] operator = "TildeToken" -> <<"~">>

\* The marker a deleted unary operator is reported with.
Removed == <<"(", "r", "e", "m", "o", "v", "e", "d", ")">>

\* ---------------------------------------------------------------- syntax trees
\* A node of the tree the parser returns: its kind, the text op of its operator,
\* the SyntaxKind opKind of its operator when it is a prefix unary expression,
\* its own text when it is a leaf, the whitespace sp around its operator token,
\* and its children in source order.
Leaf(kind, text) ==
  [kind |-> kind, op |-> <<>>, opKind |-> "", text |-> text, sp |-> <<>>, kids |-> <<>>]

Identifier(name) == Leaf("Identifier", name)

TrueLiteral == Leaf("TrueKeyword", <<"t", "r", "u", "e">>)

FalseLiteral == Leaf("FalseKeyword", <<"f", "a", "l", "s", "e">>)

\* The operator token of a binary expression is a node of its own.
OperatorToken(operator) == Leaf("OperatorToken", operator)

BinaryExpression(left, operator, right, sp) ==
  [kind |-> "BinaryExpression", op |-> operator, opKind |-> "", text |-> <<>>, sp |-> sp,
   kids |-> <<left, OperatorToken(operator), right>>]

PrefixUnaryExpression(operator, operand) ==
  [kind |-> "PrefixUnaryExpression", op |-> PrefixOperatorText(operator),
   opKind |-> operator, text |-> <<>>, sp |-> <<>>,
   kids |-> <<operand>>]

ReturnStatement(expression) ==
  [kind |-> "ReturnStatement", op |-> <<>>, opKind |-> "", text |-> <<>>, sp |-> <<>>,
   kids |-> <<expression>>]

ExpressionStatement(expression) ==
  [kind |-> "ExpressionStatement", op |-> <<>>, opKind |-> "", text |-> <<>>, sp |-> <<>>,
   kids |-> <<expression>>]

\* if (expression) thenStatement
IfStatement(expression, thenStatement) ==
  [kind |-> "IfStatement", op |-> <<>>, opKind |-> "", text |-> <<>>, sp |-> <<>>,
   kids |-> <<expression, thenStatement>>]

\* if (expression) thenStatement else elseStatement
IfElseStatement(expression, thenStatement, elseStatement) ==
  [kind |-> "IfStatement", op |-> <<>>, opKind |-> "", text |-> <<>>, sp |-> <<>>,
   kids |-> <<expression, thenStatement, elseStatement>>]

\* { statements }
Block(statements) ==
  [kind |-> "Block", op |-> <<>>, opKind |-> "", text |-> <<>>, sp |-> <<>>, kids |-> statements]

\* A function declaration: head is its text up to the body (modifiers, name,
\* parameters and return type, none of which any pass looks at).
FunctionDeclaration(head, body) ==
  [kind |-> "FunctionDeclaration", op |-> <<>>, opKind |-> "", text |-> head, sp |-> <<>>,
   kids |-> <<body>>]

SourceFile(statements) ==
  [kind |-> "SourceFile", op |-> <<>>, opKind |-> "", text |-> <<>>, sp |-> <<>>, kids |-> statements]

\* The text between the start of a node and its first child.
Lead(node) ==
  CASE node.kind = "PrefixUnaryExpression" -> node.op
    [] node.kind = "ReturnStatement" -> <<"r", "e", "t", "u", "r", "n", " ">>
    [] node.kind = "IfStatement" -> <<"i", "f", " ", "(">>
    [] node.kind = "Block" -> <<"{", "\n">>
    [] node.kind = "FunctionDeclaration" -> node.text
    [] OTHER -> <<>>

\* The text between child k and child k + 1 of a node.
Between(node, k) ==
  CASE node.kind = "BinaryExpression" -> node.sp
    [] node.kind = "IfStatement" /\ k = 1 -> <<")", "\n">>
    [] node.kind = "IfStatement" /\ k = 2 -> <<"\n", "e", "l", "s", "e", " ">>
    [] node.kind \in {"SourceFile", "Block"} -> <<"\n">>
    [] OTHER -> <<>>

\* The text between the last child of a node and the node's end.
Trail(node) ==
  CASE node.kind \in {"ReturnStatement", "ExpressionStatement"} -> <<";">>
    [] node.kind = "Block" -> <<"\n", "}">>
    [] OTHER -> <<>>

RECURSIVE NodeText(_)
RECURSIVE KidsText(_, _)
\* node.getText(): the text from the node's first token to its last.
NodeText(node) ==
  IF node.kids = <<>> THEN node.text
  ELSE Lead(node) \o KidsText(node, 1) \o Trail(node)

\* The text of the children k.. of a node with the text between them.
KidsText(node, k) ==
  IF k = Len(node.kids) THEN NodeText(node.kids[k])
  ELSE NodeText(node.kids[k]) \o Between(node, k) \o KidsText(node, k + 1)

RECURSIVE KidStart(_, _, _)
\* The start offset of child k of a node that starts at offset start.
KidStart(node, start, k) ==
  IF k = 1 THEN start + Len(Lead(node))
  ELSE KidStart(node, start, k - 1) + Len(NodeText(node.kids[k - 1]))
       + Len(Between(node, k - 1))

\* A visited node with its position: node.getStart() and node.getEnd().
Visited(node, start) == [node |-> node, start |-> start, end |-> start + Len(NodeText(node))]

RECURSIVE DescendantsFrom(_, _, _)
\* forEachDescendant: the descendants of a node in depth-first pre-order, from
\* child k on: each child, then the child's own descendants, then the next child.
DescendantsFrom(node, start, k) ==
  IF k > Len(node.kids) THEN <<>>
  ELSE LET kidStart == KidStart(node, start, k)
       IN <<Visited(node.kids[k], kidStart)>>
          \o DescendantsFrom(node.kids[k], kidStart, 1)
          \o DescendantsFrom(node, start, k + 1)

\* forEachDescendant, were it to visit the children of the source file only.
forEachChild(sourceFile) ==
  [k \in 1..Len(sourceFile.kids) |-> Visited(sourceFile.kids[k], KidStart(sourceFile, 0, k))]

\* sourceFile.forEachDescendant: the source file starts at offset 0.
forEachDescendant(sourceFile) == DescendantsFrom(sourceFile, 0, 1)

\* sourceFile.getFullText()
getFullText(sourceFile) == NodeText(sourceFile)

\* ---------------------------------------------------------------- positions
\* The offsets of the line breaks among the first pos characters of text.
BreaksBefore(text, pos) == {i \in 1..pos : text[i] = "\n"}

Max(S) == CHOOSE x \in S : \A y \in S : y <= x

\* sourceFile.getLineAndColumnAtPos(pos): 1-based line and column of offset pos.
getLineAndColumnAtPos(text, pos) ==
  [line |-> 1 + Cardinality(BreaksBefore(text, pos)),
   column |-> pos - Max(BreaksBefore(text, pos) \cup {0}) + 1]

\* text.split("\n"): the pieces between consecutive line breaks; breakAt[k] is
\* the position of the k-th line break, with one before the text and one after.
SplitLines(text) ==
  LET breaks == {i \in 1..Len(text) : text[i] = "\n"}
      n == Cardinality(breaks)
      breakAt == [k \in 0..n + 1 |->
                    IF k = 0 THEN 0
                    ELSE IF k = n + 1 THEN Len(text) + 1
                         ELSE CHOOSE b \in breaks : Cardinality({c \in breaks : c <= b}) = k]
  IN [k \in 1..n + 1 |-> SubSeq(text, breakAt[k - 1] + 1, breakAt[k] - 1)]

RECURSIVE JoinLines(_)
\* lines.join("\n")
JoinLines(lines) ==
  IF lines = <<>> THEN <<>>
  ELSE IF Len(lines) = 1 THEN lines[1]
       ELSE lines[1] \o <<"\n">> \o JoinLines(Tail(lines))

\* array.slice(from, to) for 0 <= from: the elements at 0-based indexes from..to-1.
Slice(array, from, to) ==
  SubSeq(array, from + 1, IF to < Len(array) THEN to ELSE Len(array))

\* Padding of the context window when getContext is called without `lines`.
DefaultContextLines == 2

\* Padding of the context window of a conditional mutant.
ConditionalContextLines == 3

\* getContext, were the padding always the default one.
getContextDefaultPadding(text, v, lines) ==
  LET nodeStartLine == getLineAndColumnAtPos(text, v.start).line
      nodeEndLine == getLineAndColumnAtPos(text, v.end).line
      fileEndLine == getLineAndColumnAtPos(text, Len(text)).line
      startLine == IF nodeStartLine - DefaultContextLines > 1
                   THEN nodeStartLine - DefaultContextLines ELSE 1
      endLine == IF nodeEndLine + DefaultContextLines < fileEndLine
                 THEN nodeEndLine + DefaultContextLines
                 ELSE fileEndLine
  IN JoinLines(Slice(SplitLines(text), startLine - 1, endLine))

\* getContext(sourceFile, node, lines): text is sourceFile.getFullText() and v the
\* visited node.
getContext(text, v, lines) ==
  LET nodeStartLine == getLineAndColumnAtPos(text, v.start).line
      nodeEndLine == getLineAndColumnAtPos(text, v.end).line
      fileEndLine == getLineAndColumnAtPos(text, Len(text)).line
      startLine == IF nodeStartLine - lines > 1 THEN nodeStartLine - lines ELSE 1
      endLine == IF nodeEndLine + lines < fileEndLine THEN nodeEndLine + lines
                 ELSE fileEndLine
  IN JoinLines(Slice(SplitLines(text), startLine - 1, endLine))

\* ---------------------------------------------------------------- descriptions
\* replacement ? a : b on a string: the empty string is falsy.
Truthy(string) == string # <<>>

\* describeMutation(mutatorName, original, replacement)
describeMutation(mutatorName, original, replacement) ==
  CASE mutatorName = BinaryOperator ->
         Concat(<<<<"C", "h", "a", "n", "g", "e", " ", "o", "p", "e", "r", "a", "t", "o", "r", " ", "\"">>,
                  original, <<"\"", " ", "t", "o", " ", "\"">>, replacement, <<"\"">>>>)
    [] mutatorName = UnaryOperator ->
         IF Truthy(replacement)
         THEN Concat(<<<<"C", "h", "a", "n", "g", "e", " ", "u", "n", "a", "r", "y", " ", "\"">>,
                       original, <<"\"", " ", "t", "o", " ", "\"">>, replacement, <<"\"">>>>)
         ELSE Concat(<<<<"R", "e", "m", "o", "v", "e", " ", "u", "n", "a", "r", "y", " ", "o", "p", "e", "r", "a", "t", "o", "r", " ", "\"">>,
                       original, <<"\"">>>>)
    [] mutatorName = BooleanLiteral ->
         Concat(<<<<"F", "l", "i", "p", " ", "b", "o", "o", "l", "e", "a", "n", " ", "f", "r", "o", "m", " ">>,
                  original, <<" ", "t", "o", " ">>, replacement>>)
    [] mutatorName = ConditionalRemoval ->
         Concat(<<<<"R", "e", "m", "o", "v", "e", " ", "c", "o", "n", "d", "i", "t", "i", "o", "n", "a", "l", " ", "-", " ", "a", "l", "w", "a", "y", "s", " ", "t", "a", "k", "e", " ">>,
                  replacement, <<" ", "b", "r", "a", "n", "c", "h">>>>)
    [] mutatorName = BoundaryCondition ->
         Concat(<<<<"C", "h", "a", "n", "g", "e", " ", "b", "o", "u", "n", "d", "a", "r", "y", ":", " ", "\"">>,
                  original, <<"\"", " ", "t", "o", " ", "\"">>, replacement, <<"\"">>>>)

\* ---------------------------------------------------------------- identifiers
RECURSIVE NumberToString(_)
\* The decimal digits of a natural number, as a template literal renders it.
NumberToString(n) ==
  LET digit == <<"0", "1", "2", "3", "4", "5", "6", "7", "8", "9">>[(n % 10) + 1]
  IN IF n < 10 THEN <<digit>> ELSE Append(NumberToString(n \div 10), digit)

RECURSIVE basename(_)
\* path.basename(fileName): the part after the last "/".
basename(fileName) ==
  IF \E i \in 1..Len(fileName) : fileName[i] = "/"
  THEN basename(Tail(fileName))
  ELSE fileName

\* MutantId, were the base name of the file left out.
MutantIdNumberOnly(fileName, id) == NumberToString(id)

\* `${path.basename(fileName)}-${++id}` with id already incremented.
MutantId(fileName, id) == Concat(<<basename(fileName), <<"-">>, NumberToString(id)>>)

\* ---------------------------------------------------------------- collectors
\* The location of the text from offset startPos to offset endPos.
Location(text, startPos, endPos) ==
  [start |-> getLineAndColumnAtPos(text, startPos),
   end |-> getLineAndColumnAtPos(text, endPos)]

\* The mutants pushed for one binary expression v whose operator has the table
\* entry mutations: one per replacement from replacement r on, id being the
\* counter before the push.
RECURSIVE BinaryNodeMutants(_, _, _, _, _, _)
BinaryNodeMutants(text, fileName, v, mutations, r, id) ==
  IF r > Len(mutations) THEN <<>>
  ELSE LET operator == v.node.kids[2].text
           startPos == KidStart(v.node, v.start, 2)
           endPos == startPos + Len(v.node.kids[2].text)
           isBoundary == IsBoundaryOperator(operator)
           mutatorName == IF isBoundary THEN BoundaryCondition ELSE BinaryOperator
       IN <<[id |-> MutantId(fileName, id + 1),
             fileName |-> fileName,
             mutatorName |-> mutatorName,
             original |-> operator,
             replacement |-> mutations[r],
             location |-> Location(text, startPos, endPos),
             context |-> getContext(text, v, DefaultContextLines),
             description |-> describeMutation(mutatorName, operator, mutations[r]),
             hasExpressionText |-> TRUE,
             expressionText |-> NodeText(v.node)]>>
          \o BinaryNodeMutants(text, fileName, v, mutations, r + 1, id + 1)

RECURSIVE BinaryVisit(_, _, _, _, _)
\* The callback of collectBinaryMutations over the visited nodes k.., id being
\* the counter so far.
BinaryVisit(text, fileName, nodes, k, id) ==
  IF k > Len(nodes) THEN <<>>
  ELSE LET v == nodes[k]
           operator == v.node.kids[2].text
       IN IF v.node.kind = "BinaryExpression" /\ HasBinaryEntry(operator)
          THEN BinaryNodeMutants(text, fileName, v, BINARY_OPERATOR_MUTATIONS(operator), 1, id)
               \o BinaryVisit(text, fileName, nodes, k + 1,
                              id + Len(BINARY_OPERATOR_MUTATIONS(operator)))
          ELSE BinaryVisit(text, fileName, nodes, k + 1, id)

\* collectBinaryMutations(sourceFile, fileName): the counter starts at 0.
collectBinaryMutations(sourceFile, fileName) ==
  BinaryVisit(getFullText(sourceFile), fileName, forEachDescendant(sourceFile), 1, 0)

\* ReplacementOrRemoved, were the empty replacement reported as it is.
ReplacementAsListed(replacement) == replacement

\* replacement || "(removed)"
ReplacementOrRemoved(replacement) ==
  IF Truthy(replacement) THEN replacement ELSE Removed

RECURSIVE UnaryNodeMutants(_, _, _, _, _, _)
\* The mutants pushed for one prefix unary expression v with table entry mutation.
UnaryNodeMutants(text, fileName, v, mutation, r, id) ==
  IF r > Len(mutation.replacements) THEN <<>>
  ELSE LET startPos == v.start
           replacement == mutation.replacements[r]
       IN <<[id |-> MutantId(fileName, id + 1),
             fileName |-> fileName,
             mutatorName |-> UnaryOperator,
             original |-> mutation.original,
             replacement |-> ReplacementOrRemoved(replacement),
             location |-> Location(text, startPos, startPos + Len(mutation.original)),
             context |-> getContext(text, v, DefaultContextLines),
             description |-> describeMutation(UnaryOperator, mutation.original, replacement),
             hasExpressionText |-> TRUE,
             expressionText |-> NodeText(v.node)]>>
          \o UnaryNodeMutants(text, fileName, v, mutation, r + 1, id + 1)

RECURSIVE UnaryVisit(_, _, _, _, _)
\* The callback of collectUnaryMutations over the visited nodes k...
UnaryVisit(text, fileName, nodes, k, id) ==
  IF k > Len(nodes) THEN <<>>
  ELSE LET v == nodes[k]
           operator == v.node.opKind
       IN IF v.node.kind = "PrefixUnaryExpression" /\ HasUnaryEntry(operator)
          THEN UnaryNodeMutants(text, fileName, v, UNARY_OPERATOR_MUTATIONS(operator), 1, id)
               \o UnaryVisit(text, fileName, nodes, k + 1,
                             id + Len(UNARY_OPERATOR_MUTATIONS(operator).replacements))
          ELSE UnaryVisit(text, fileName, nodes, k + 1, id)

\* collectUnaryMutations, were its counter started at 0 like the binary pass's.
collectUnaryMutationsFromZero(sourceFile, fileName, startId) ==
  UnaryVisit(getFullText(sourceFile), fileName, forEachDescendant(sourceFile), 1, 0)

\* collectUnaryMutations(sourceFile, fileName, startId)
collectUnaryMutations(sourceFile, fileName, startId) ==
  UnaryVisit(getFullText(sourceFile), fileName, forEachDescendant(sourceFile), 1, startId)

\* FlippedLiteral, were the literal never flipped to "false".
FlippedLiteralAlwaysTrue(original) == <<"t", "r", "u", "e">>

\* FlippedLiteral, were the literal kept.
FlippedLiteralKept(original) == original

\* original === "true" ? "false" : "true"
FlippedLiteral(original) ==
  IF original = <<"t", "r", "u", "e">> THEN <<"f", "a", "l", "s", "e">>
  ELSE <<"t", "r", "u", "e">>

RECURSIVE BooleanVisit(_, _, _, _, _)
\* The callback of collectBooleanMutations over the visited nodes k...
BooleanVisit(text, fileName, nodes, k, id) ==
  IF k > Len(nodes) THEN <<>>
  ELSE LET v == nodes[k]
           original == NodeText(v.node)
           replacement == FlippedLiteral(original)
       IN IF v.node.kind \in {"TrueKeyword", "FalseKeyword"}
          THEN <<[id |-> MutantId(fileName, id + 1),
                  fileName |-> fileName,
                  mutatorName |-> BooleanLiteral,
                  original |-> original,
                  replacement |-> replacement,
                  location |-> Location(text, v.start, v.end),
                  context |-> getContext(text, v, DefaultContextLines),
                  description |-> describeMutation(BooleanLiteral, original, replacement),
                  hasExpressionText |-> TRUE,
                  expressionText |-> NodeText(v.node)]>>
               \o BooleanVisit(text, fileName, nodes, k + 1, id + 1)
          ELSE BooleanVisit(text, fileName, nodes, k + 1, id)

\* collectBooleanMutations(sourceFile, fileName, startId)
collectBooleanMutations(sourceFile, fileName, startId) ==
  BooleanVisit(getFullText(sourceFile), fileName, forEachDescendant(sourceFile), 1, startId)

ForceIfBranch == <<"t", "r", "u", "e", " ", "(", "a", "l", "w", "a", "y", "s", " ", "i", "f", "-", "b", "r", "a", "n", "c", "h", ")">>

ForceElseBranch == <<"f", "a", "l", "s", "e", " ", "(", "a", "l", "w", "a", "y", "s", " ", "e", "l", "s", "e", "-", "b", "r", "a", "n", "c", "h", ")">>

\* ConditionalMutant, were the location that of the whole if statement.
ConditionalMutantWholeIf(text, fileName, v, id, replacement, branch) ==
  [id |-> MutantId(fileName, id),
   fileName |-> fileName,
   mutatorName |-> ConditionalRemoval,
   original |-> NodeText(v.node.kids[1]),
   replacement |-> replacement,
   location |-> Location(text, v.start, v.end),
   context |-> getContext(text, v, ConditionalContextLines),
   description |-> describeMutation(ConditionalRemoval, NodeText(v.node.kids[1]), branch),
   hasExpressionText |-> TRUE,
   expressionText |-> NodeText(v.node.kids[1])]

\* One of the two mutants pushed for the if statement v.
ConditionalMutant(text, fileName, v, id, replacement, branch) ==
  LET condition == v.node.kids[1]
      startPos == KidStart(v.node, v.start, 1)
      endPos == startPos + Len(NodeText(condition))
  IN [id |-> MutantId(fileName, id),
      fileName |-> fileName,
      mutatorName |-> ConditionalRemoval,
      original |-> NodeText(condition),
      replacement |-> replacement,
      location |-> Location(text, startPos, endPos),
      context |-> getContext(text, v, ConditionalContextLines),
      description |-> describeMutation(ConditionalRemoval, NodeText(condition), branch),
      hasExpressionText |-> TRUE,
      expressionText |-> NodeText(condition)]

RECURSIVE ConditionalVisit(_, _, _, _, _)
\* The callback of collectConditionalMutations over the visited nodes k...
ConditionalVisit(text, fileName, nodes, k, id) ==
  IF k > Len(nodes) THEN <<>>
  ELSE LET v == nodes[k]
       IN IF v.node.kind = "IfStatement"
          THEN <<ConditionalMutant(text, fileName, v, id + 1, ForceIfBranch,
                                   <<"i", "f", "-", "b", "r", "a", "n", "c", "h">>),
                 ConditionalMutant(text, fileName, v, id + 2, ForceElseBranch,
                                   <<"e", "l", "s", "e", "-", "b", "r", "a", "n", "c", "h">>)>>
               \o ConditionalVisit(text, fileName, nodes, k + 1, id + 2)
          ELSE ConditionalVisit(text, fileName, nodes, k + 1, id)

\* collectConditionalMutations(sourceFile, fileName, startId)
collectConditionalMutations(sourceFile, fileName, startId) ==
  ConditionalVisit(getFullText(sourceFile), fileName, forEachDescendant(sourceFile), 1, startId)

\* ---------------------------------------------------------------- files
RECURSIVE SplitPath(_, _)
\* The segments of a path between its "/" separators (cur is the one being read).
SplitPath(path, cur) ==
  IF path = <<>> THEN <<cur>>
  ELSE IF Head(path) = "/" THEN <<cur>> \o SplitPath(Tail(path), <<>>)
       ELSE SplitPath(Tail(path), Append(cur, Head(path)))

RECURSIVE ResolveSegments(_, _)
\* path.resolve on the segments of a path relative to the working directory:
\* empty and "." segments go, ".." removes the segment before it. done holds
\* the segments kept so far.
ResolveSegments(segments, done) ==
  IF segments = <<>> THEN done
  ELSE IF Head(segments) \in {<<>>, <<".">>}
       THEN ResolveSegments(Tail(segments), done)
       ELSE IF Head(segments) = <<".", ".">> /\ done # <<>> /\ done[Len(done)] # <<".", ".">>
            THEN ResolveSegments(Tail(segments), SubSeq(done, 1, Len(done) - 1))
            ELSE ResolveSegments(Tail(segments), Append(done, Head(segments)))

RECURSIVE JoinPath(_)
JoinPath(segments) ==
  IF segments = <<>> THEN <<>>
  ELSE IF Len(segments) = 1 THEN segments[1]
       ELSE segments[1] \o <<"/">> \o JoinPath(Tail(segments))

\* path.relative(process.cwd(), path.resolve(filePath)) for a filePath given
\* relative to the working directory.
relativeFileName(filePath) == JoinPath(ResolveSegments(SplitPath(filePath, <<>>), <<>>))

\* The candidate paths of a run, as a caller writes them.
PathA == <<"a", ".", "t", "s">>

PathB == <<".", "/", "s", "/", "b", ".", "t", "s">>

\* A path with the base name of PathA in the directory of PathB.
PathC == <<".", "/", "s", "/", "a", ".", "t", "s">>

Paths == {PathA, PathB, PathC}

\* A path that names no file.
Missing == [exists |-> FALSE, readable |-> FALSE, sourceFile |-> SourceFile(<<>>)]

\* A file whose content parses to sourceFile.
ExistingFile(sourceFile) == [exists |-> TRUE, readable |-> TRUE, sourceFile |-> sourceFile]

\* A path that exists but cannot be read as a file (a directory, a file
\* without read permission): existsSync is true, addSourceFileAtPath throws.
Unreadable == [exists |-> TRUE, readable |-> FALSE, sourceFile |-> SourceFile(<<>>)]

\* The file system: what is at each (resolved) path.
NoFiles == [q \in {relativeFileName(p) : p \in Paths} |-> Missing]

\* fs.existsSync(f)
existsSync(d, f) ==
  /\ relativeFileName(f) \in DOMAIN d
  /\ d[relativeFileName(f)].exists

\* string.endsWith(suffix)
EndsWith(string, suffix) ==
  /\ Len(string) >= Len(suffix)
  /\ SubSeq(string, Len(string) - Len(suffix) + 1, Len(string)) = suffix

\* string.includes(part)
Includes(string, part) ==
  \E i \in 1..Len(string) - Len(part) + 1 : SubSeq(string, i, i + Len(part) - 1) = part

\* The three filters of getChangedFiles on one line of git's output.
IsChangedSource(d, f) ==
  /\ \/ EndsWith(f, <<".", "t", "s">>)
     \/ EndsWith(f, <<".", "t", "s", "x">>)
     \/ EndsWith(f, <<".", "j", "s">>)
     \/ EndsWith(f, <<".", "j", "s", "x">>)
  /\ ~Includes(f, <<".", "t", "e", "s", "t", ".">>)
  /\ ~Includes(f, <<".", "s", "p", "e", "c", ".">>)
  /\ existsSync(d, f)

RECURSIVE getChangedFiles(_, _)
\* getChangedFiles(baseBranch): diff holds the lines git prints, and the three
\* filters keep the lines that pass.
getChangedFiles(d, diff) ==
  IF diff = <<>> THEN <<>>
  ELSE (IF IsChangedSource(d, Head(diff)) THEN <<Head(diff)>> ELSE <<>>)
       \o getChangedFiles(d, Tail(diff))

RECURSIVE FilterExisting(_, _)
\* files.filter((f) => fs.existsSync(f))
FilterExisting(d, files) ==
  IF files = <<>> THEN <<>>
  ELSE (IF existsSync(d, Head(files)) THEN <<Head(files)>> ELSE <<>>)
       \o FilterExisting(d, Tail(files))

\* ---------------------------------------------------------------- source files
IdA == Identifier(<<"a">>)

IdB == Identifier(<<"b">>)

Sp == <<" ">>

\* The statements a source file of the model is made of: every operator of
\* both tables, operators of neither table (=, ??, ~), nested expressions,
\* the same comparison with other whitespace, literals, and if statements
\* (plain, nested, with else, with else if).
Statements ==
  {ReturnStatement(BinaryExpression(IdA, <<">">>, IdB, <<" ", "\t">>)),
   ReturnStatement(BinaryExpression(BinaryExpression(IdA, <<"<">>, IdB, Sp), <<"&", "&">>,
                                    BinaryExpression(IdA, <<">", "=">>, IdB, Sp), Sp)),
   ReturnStatement(BinaryExpression(BinaryExpression(IdA, <<"<", "=">>, IdB, Sp), <<"|", "|">>,
                                    PrefixUnaryExpression("ExclamationToken", IdA), Sp)),
   ExpressionStatement(
     BinaryExpression(IdA, <<"=">>,
       BinaryExpression(
         BinaryExpression(
           BinaryExpression(
             BinaryExpression(BinaryExpression(IdA, <<"*">>, IdB, Sp), <<"/">>, IdA, Sp),
             <<"%">>, IdB, Sp),
           <<"+">>, IdB, Sp),
         <<"-">>, IdA, Sp),
       Sp)),
   ReturnStatement(
     BinaryExpression(
       BinaryExpression(
         BinaryExpression(BinaryExpression(IdA, <<"=", "=", "=">>, IdB, Sp),
                          <<"!", "=", "=">>, IdA, Sp),
         <<"=", "=">>, IdB, Sp),
       <<"!", "=">>, IdA, Sp)),
   ReturnStatement(BinaryExpression(PrefixUnaryExpression("ExclamationToken", IdA), <<"?", "?">>,
                                    PrefixUnaryExpression("MinusToken", IdB), Sp)),
   ReturnStatement(
     BinaryExpression(
       BinaryExpression(
         BinaryExpression(PrefixUnaryExpression("PlusPlusToken", IdA), <<"-">>,
                          PrefixUnaryExpression("MinusMinusToken", IdB), Sp),
         <<"-">>, PrefixUnaryExpression("PlusToken", IdA), Sp),
       <<"-">>, PrefixUnaryExpression("TildeToken", IdB), Sp)),
   ReturnStatement(PrefixUnaryExpression("ExclamationToken",
                     PrefixUnaryExpression("ExclamationToken", TrueLiteral))),
   IfElseStatement(TrueLiteral, ReturnStatement(IdA),
                   IfStatement(BinaryExpression(IdA, <<">">>, IdB, Sp),
                               ReturnStatement(FalseLiteral))),
   IfStatement(BinaryExpression(IdA, <<">">>, IdB, Sp),
               IfStatement(PrefixUnaryExpression("ExclamationToken", IdA),
                           ReturnStatement(TrueLiteral))),
   IfElseStatement(BinaryExpression(IdA, <<"|", "|">>, IdB, Sp), ReturnStatement(IdB),
                   ReturnStatement(IdA))}

\* The source files of the model: up to MaxStatements statements.
SourceFiles ==
  {SourceFile(statements) :
     statements \in UNION {[1..n -> Statements] : n \in 0..MaxStatements}}

IdValue == Identifier(<<"v", "a", "l", "u", "e">>)

IdMin == Identifier(<<"m", "i", "n">>)

IdMax == Identifier(<<"m", "a", "x">>)

\* A file that holds the function clamp of the example and nothing else.
ClampFile ==
  SourceFile(<<
    FunctionDeclaration(
      <<"e", "x", "p", "o", "r", "t", " ", "f", "u", "n", "c", "t", "i", "o", "n", " ", "c",
        "l", "a", "m", "p", "(", "v", "a", "l", "u", "e", ":", " ", "n", "u", "m", "b", "e",
        "r", ",", " ", "m", "i", "n", ":", " ", "n", "u", "m", "b", "e", "r", ",", " ", "m",
        "a", "x", ":", " ", "n", "u", "m", "b", "e", "r", ")", ":", " ", "n", "u", "m", "b",
        "e", "r", " ">>,
      Block(<<IfStatement(BinaryExpression(IdValue, <<"<">>, IdMin, Sp),
                          Block(<<ReturnStatement(IdMin)>>)),
              IfStatement(BinaryExpression(IdValue, <<">">>, IdMax, Sp),
                          Block(<<ReturnStatement(IdMax)>>)),
              ReturnStatement(IdValue)>>))>>)

\* A file of ten lines with constructs of all four passes: operators of both
\* tables and of neither, literals, and an if statement in the middle.
SampleFile ==
  SourceFile(<<
    ExpressionStatement(
      BinaryExpression(IdA, <<"=">>,
        BinaryExpression(BinaryExpression(IdA, <<"*">>, IdB, Sp), <<"%">>, IdA, Sp), Sp)),
    ReturnStatement(BinaryExpression(IdA, <<">", "=">>, IdB, Sp)),
    ReturnStatement(PrefixUnaryExpression("ExclamationToken",
                      PrefixUnaryExpression("ExclamationToken", TrueLiteral))),
    ReturnStatement(BinaryExpression(IdA, <<"&", "&">>, IdB, <<" ", "\t">>)),
    IfStatement(PrefixUnaryExpression("ExclamationToken", IdA), ReturnStatement(FalseLiteral)),
    ReturnStatement(BinaryExpression(PrefixUnaryExpression("PlusPlusToken", IdA), <<"-">>,
                                     PrefixUnaryExpression("TildeToken", IdB), Sp)),
    ReturnStatement(BinaryExpression(IdA, <<"?", "?">>,
                                     PrefixUnaryExpression("MinusToken", IdB), Sp)),
    ReturnStatement(BinaryExpression(IdA, <<"=", "=", "=">>, IdB, Sp)),
    ReturnStatement(TrueLiteral)>>)

\* What a file of the file-resolution runs holds.
FileContents == {SourceFile(<<>>), ClampFile, SampleFile}

\* ---------------------------------------------------------------- generateMutants
\* entryPoint when the functions are called by a program that imports them:
\* no main runs and there is no argument vector.
Module == "module"

\* A call generateMutants({files: [PathA, PathB]}) is about to be made: both
\* paths name files, or PathB alone does, or neither; the files have the same
\* content, and a path may name something that cannot be read when that
\* content is empty. (SpecFiles has the runs with other lists and other file
\* systems.)
Init ==
  /\ options = [files |-> <<PathA, PathB>>, fromGitDiff |-> FALSE]
  /\ \E present \in {{}, {PathB}, {PathA, PathB}}, sourceFile \in SourceFiles :
       \E unreadable \in SUBSET ({PathA, PathB} \ present) :
         /\ (present = {} \/ unreadable # {}) => sourceFile = SourceFile(<<>>)
         /\ disk = [q \in DOMAIN NoFiles |->
                      IF q \in {relativeFileName(p) : p \in present}
                      THEN ExistingFile(sourceFile)
                      ELSE IF q \in {relativeFileName(p) : p \in unreadable}
                           THEN Unreadable ELSE Missing]
  /\ git = <<>>
  /\ changedFilesCalls = 0
  /\ calls = <<>>
  /\ args = <<>>
  /\ entryPoint = Module
  /\ pc = "start"
  /\ filePaths = <<>>
  /\ fileIdx = 0
  /\ currentId = 0
  /\ allMutants = <<>>
  /\ mutants = <<>>
  /\ groups = <<>>

\* Line 250, options.files && options.files.length > 0: an absent list and an
\* empty one both are <<>>.
UsesGivenFilesUnlessGitDiff(o) == Len(o.files) > 0 /\ ~o.fromGitDiff

UsesGivenFiles(o) == Len(o.files) > 0

\* Lines 248-254: the candidate files. changedFilesCalls counts the calls of
\* getChangedFiles.
ResolveFiles ==
  /\ pc = "start"
  /\ IF UsesGivenFiles(options)
     THEN /\ filePaths' = FilterExisting(disk, options.files)
          /\ UNCHANGED changedFilesCalls
     ELSE IF options.fromGitDiff
          THEN /\ filePaths' = getChangedFiles(disk, git)
               /\ changedFilesCalls' = changedFilesCalls + 1
          ELSE /\ filePaths' = <<>>
               /\ UNCHANGED changedFilesCalls
  /\ pc' = "resolved"
  /\ UNCHANGED <<args, entryPoint,
                 options, disk, git, calls, fileIdx, currentId, allMutants, mutants, groups>>

\* Lines 256-258: no candidate file, the call returns [].
ReturnEmpty ==
  /\ pc = "resolved"
  /\ Len(filePaths) = 0
  /\ mutants' = <<>>
  /\ pc' = "done"
  /\ UNCHANGED <<args, entryPoint,
                 options, disk, git, changedFilesCalls, calls, filePaths, fileIdx, currentId,
                 allMutants, groups>>

\* Lines 268-273: the head of the loop over filePaths takes the next file and
\* sets its counter to 0.
AddSourceFile ==
  /\ \/ pc = "resolved" /\ Len(filePaths) > 0
     \/ pc = "next" /\ fileIdx < Len(filePaths)
  /\ disk[relativeFileName(filePaths[fileIdx + 1])].readable
  /\ fileIdx' = fileIdx + 1
  /\ currentId' = 0
  /\ pc' = "binary"
  /\ UNCHANGED <<args, entryPoint,
                 options, disk, git, changedFilesCalls, calls, filePaths, allMutants, mutants,
                 groups>>

\* Line 270 when the next path cannot be read: addSourceFileAtPath throws,
\* nothing in the loop catches it, and the call ends with the error instead of
\* a result.
AddSourceFileThrows ==
  /\ \/ pc = "resolved" /\ Len(filePaths) > 0
     \/ pc = "next" /\ fileIdx < Len(filePaths)
  /\ ~disk[relativeFileName(filePaths[fileIdx + 1])].readable
  /\ fileIdx' = fileIdx + 1
  /\ pc' = "thrown"
  /\ UNCHANGED <<args, entryPoint,
                 options, disk, git, changedFilesCalls, calls, filePaths, currentId, allMutants,
                 mutants, groups>>

\* allMutants.push(...items), lines 277, 281, 285 and 288.
PushFirst(array, items) == items \o array

Push(array, items) == array \o items

\* The file of the current iteration, parsed.
CurrentSourceFile == disk[relativeFileName(filePaths[fileIdx])].sourceFile

\* relativeFileName of the current iteration.
CurrentFileName == relativeFileName(filePaths[fileIdx])

\* Lines 275-277.
CollectBinary ==
  /\ pc = "binary"
  /\ LET binaryMutants == collectBinaryMutations(CurrentSourceFile, CurrentFileName)
     IN /\ currentId' = currentId + Len(binaryMutants)
        /\ allMutants' = Push(allMutants, binaryMutants)
  /\ pc' = "unary"
  /\ UNCHANGED <<args, entryPoint,
                 options, disk, git, changedFilesCalls, calls, filePaths, fileIdx, mutants, groups>>

\* Lines 279-281.
CollectUnary ==
  /\ pc = "unary"
  /\ LET unaryMutants == collectUnaryMutations(CurrentSourceFile, CurrentFileName, currentId)
     IN /\ currentId' = currentId + Len(unaryMutants)
        /\ allMutants' = Push(allMutants, unaryMutants)
  /\ pc' = "boolean"
  /\ UNCHANGED <<args, entryPoint,
                 options, disk, git, changedFilesCalls, calls, filePaths, fileIdx, mutants, groups>>

\* Lines 283-285.
CollectBoolean ==
  /\ pc = "boolean"
  /\ LET booleanMutants == collectBooleanMutations(CurrentSourceFile, CurrentFileName, currentId)
     IN /\ currentId' = currentId + Len(booleanMutants)
        /\ allMutants' = Push(allMutants, booleanMutants)
  /\ pc' = "conditional"
  /\ UNCHANGED <<args, entryPoint,
                 options, disk, git, changedFilesCalls, calls, filePaths, fileIdx, mutants, groups>>

\* Lines 287-288: the last pass of the iteration; currentId is not advanced.
CollectConditional ==
  /\ pc = "conditional"
  /\ LET conditionalMutants ==
           collectConditionalMutations(CurrentSourceFile, CurrentFileName, currentId)
     IN allMutants' = Push(allMutants, conditionalMutants)
  /\ pc' = "next"
  /\ UNCHANGED <<args, entryPoint,
                 options, disk, git, changedFilesCalls, calls, filePaths, fileIdx, currentId,
                 mutants, groups>>

\* Line 291: the loop is over, the call returns allMutants.
ReturnAllMutants ==
  /\ pc = "next"
  /\ fileIdx = Len(filePaths)
  /\ mutants' = allMutants
  /\ pc' = "done"
  /\ UNCHANGED <<args, entryPoint,
                 options, disk, git, changedFilesCalls, calls, filePaths, fileIdx, currentId,
                 allMutants, groups>>

\* main, lines 524-527: nothing to report.
MainNoMutations ==
  /\ pc = "done"
  /\ Len(mutants) = 0
  /\ pc' = "exit"
  /\ UNCHANGED <<args, entryPoint,
                 options, disk, git, changedFilesCalls, calls, filePaths, fileIdx, currentId,
                 allMutants, mutants, groups>>

\* main, lines 529-532 without --no-dedup: formatGroupedMutantsForTestGeneration
\* groups the mutants (line 402).
MainGroup ==
  /\ pc = "done"
  /\ Len(mutants) > 0
  /\ groups' = groupMutantsBySignature(mutants)
  /\ pc' = "grouped"
  /\ UNCHANGED <<args, entryPoint,
                 options, disk, git, changedFilesCalls, calls, filePaths, fileIdx, currentId,
                 allMutants, mutants>>

Next ==
  \/ ResolveFiles
  \/ ReturnEmpty
  \/ AddSourceFile
  \/ AddSourceFileThrows
  \/ CollectBinary
  \/ CollectUnary
  \/ CollectBoolean
  \/ CollectConditional
  \/ ReturnAllMutants
  \/ MainNoMutations
  \/ MainGroup

Spec == Init /\ [][Next]_vars

\* ---------------------------------------------------------------- file resolution
\* The lists a caller passes as options.files: none, two files in either
\* order, two files with the same base name, and the same file twice.
GivenFiles ==
  {<<>>, <<PathA, PathB>>, <<PathB, PathA>>, <<PathA, PathC>>, <<PathA, PathA>>}

\* What git prints, split at "\n": nothing, or a change-set with a source
\* file in a directory, a test file, a file that is no source file, a source
\* file, and the empty piece after the last line break.
GitOutputs ==
  {<<>>,
   <<<<"s", "/", "b", ".", "t", "s">>,
     <<"a", ".", "t", "e", "s", "t", ".", "t", "s">>,
     <<"R", "E", "A", "D", "M", "E", ".", "m", "d">>,
     <<"a", ".", "t", "s">>, <<>>>>}

\* A call of generateMutants is about to be made with any of the option
\* combinations, on a file system where each candidate path is missing,
\* unreadable or a file with one of the contents.
InitFiles ==
  /\ options \in [files : GivenFiles, fromGitDiff : BOOLEAN]
  /\ git \in GitOutputs
  /\ \E a, b \in {Missing, Unreadable} \cup {ExistingFile(c) : c \in FileContents},
        c \in {Missing, ExistingFile(ClampFile)} :
       disk = [q \in DOMAIN NoFiles |->
                 IF q = relativeFileName(PathA) THEN a
                 ELSE IF q = relativeFileName(PathB) THEN b ELSE c]
  /\ changedFilesCalls = 0
  /\ calls = <<>>
  /\ args = <<>>
  /\ entryPoint = Module
  /\ pc = "start"
  /\ filePaths = <<>>
  /\ fileIdx = 0
  /\ currentId = 0
  /\ allMutants = <<>>
  /\ mutants = <<>>
  /\ groups = <<>>

SpecFiles == InitFiles /\ [][Next]_vars

\* ---------------------------------------------------------------- direct callers
\* groupMutantsBySignature is exported: a caller may hand it any MutantInfo
\* sequence. The key fields a caller's mutants are drawn from: pairs that
\* differ only in whitespace, pairs whose fields contain the delimiter '|',
\* absent and empty expressionText, and keys that differ in a single field.
CallerKeys ==
  {[mutatorName |-> k[1], original |-> k[2], replacement |-> k[3],
    hasExpressionText |-> k[4], expressionText |-> k[5]] :
     k \in {<<BinaryOperator, <<"a", "|", "b">>, <<"c">>, TRUE, <<"x">>>>,
            <<BinaryOperator, <<"a">>, <<"b", "|", "c">>, TRUE, <<"x">>>>,
            <<BinaryOperator, <<">">>, <<">", "=">>, TRUE, <<"a", " ", ">", " ", "b">>>>,
            <<BinaryOperator, <<">">>, <<">", "=">>, TRUE,
              <<" ", "a", " ", "\n", ">", "\t", "b", " ">>>>,
            <<BinaryOperator, <<">">>, <<">", "=">>, TRUE, <<"a", ">", "b">>>>,
            <<BinaryOperator, <<">">>, <<">", "=">>, FALSE, <<>>>>,
            <<BinaryOperator, <<">">>, <<">", "=">>, TRUE, <<">">>>>,
            <<BinaryOperator, <<">">>, <<">", "=">>, TRUE, <<>>>>,
            <<BoundaryCondition, <<">">>, <<">", "=">>, TRUE, <<"a", " ", ">", " ", "b">>>>,
            <<BinaryOperator, <<">">>, <<"<">>, TRUE, <<"a", " ", ">", " ", "b">>>>}}

\* The fields that say where a mutant was found.
CallerSites ==
  {[id |-> <<"a", "-", "1">>, fileName |-> <<"a">>,
    location |-> [start |-> [line |-> 1, column |-> 1], end |-> [line |-> 1, column |-> 2]],
    context |-> <<"x">>, description |-> <<"d">>],
   [id |-> <<"b", "-", "2">>, fileName |-> <<"s", "/", "b">>,
    location |-> [start |-> [line |-> 2, column |-> 3], end |-> [line |-> 2, column |-> 5]],
    context |-> <<"y">>, description |-> <<"e">>]}

\* A MutantInfo object (lines 7-20 of the interface).
MutantInfo(key, site) ==
  [id |-> site.id, fileName |-> site.fileName, mutatorName |-> key.mutatorName,
   original |-> key.original, replacement |-> key.replacement,
   location |-> site.location, context |-> site.context,
   description |-> site.description,
   hasExpressionText |-> key.hasExpressionText, expressionText |-> key.expressionText]

\* A site of CallerSites by its file.
SiteIn(fileName) == CHOOSE site \in CallerSites : site.fileName = fileName

\* The mutants a caller's sequences are made of: every key at the site in "a",
\* and at the site in "s/b" as well the keys for `a > b` under its three
\* spellings and the key without expressionText.
CallerMutants ==
  {MutantInfo(key, SiteIn(<<"a">>)) : key \in CallerKeys}
    \cup {MutantInfo(key, SiteIn(<<"s", "/", "b">>)) :
            key \in {k \in CallerKeys :
                       /\ k.mutatorName = BinaryOperator
                       /\ k.replacement = <<">", "=">>
                       /\ k.original = <<">">>
                       /\ \/ ~k.hasExpressionText
                          \/ \E i \in DOMAIN k.expressionText :
                               k.expressionText[i] = "b"}}

CallerSequences == UNION {[1..n -> CallerMutants] : n \in 0..MaxMutants}

NoOptions == [files |-> <<>>, fromGitDiff |-> FALSE]

\* A direct call of groupMutantsBySignature is about to be made with `mutants`.
InitGroup ==
  /\ mutants \in CallerSequences
  /\ groups = <<>>
  /\ pc = "call"
  /\ options = NoOptions
  /\ disk = NoFiles
  /\ git = <<>>
  /\ changedFilesCalls = 0
  /\ calls = <<>>
  /\ args = <<>>
  /\ entryPoint = Module
  /\ filePaths = <<>>
  /\ fileIdx = 0
  /\ currentId = 0
  /\ allMutants = <<>>

\* NewMap, were the map kept from one call to the next.
RetainedMap(left) == left

\* Line 375, const groups = new Map(): the map of a call is made anew,
\* whatever groups the call before left.
NewMap(left) == <<>>

\* The call of groupMutantsBySignature(mutants) and its return; `groups` holds
\* what the call before returned, if there was one.
GroupCall ==
  /\ pc = "call"
  /\ groups' = GroupLoop(mutants, 1, NewMap(groups))
  /\ pc' = "returned"
  /\ UNCHANGED <<args, entryPoint,
                 options, disk, git, changedFilesCalls, calls, filePaths, fileIdx, currentId,
                 allMutants, mutants>>

NextGroup == GroupCall

SpecGroup == InitGroup /\ [][NextGroup]_vars

\* ---------------------------------------------------------------- repeated calls
\* Three mutants a caller groups again and again: two with the same key but
\* other whitespace and another site, and one with another replacement.
FirstMutant ==
  [id |-> <<"a", "-", "1">>, fileName |-> <<"a">>, mutatorName |-> BoundaryCondition,
   original |-> <<">">>, replacement |-> <<">", "=">>,
   location |-> [start |-> [line |-> 1, column |-> 3], end |-> [line |-> 1, column |-> 4]],
   context |-> <<"x">>, description |-> <<"d">>,
   hasExpressionText |-> TRUE, expressionText |-> <<"a", " ", ">", " ", "b">>]

SecondMutant ==
  [id |-> <<"b", "-", "2">>, fileName |-> <<"s", "/", "b">>, mutatorName |-> BoundaryCondition,
   original |-> <<">">>, replacement |-> <<">", "=">>,
   location |-> [start |-> [line |-> 2, column |-> 4], end |-> [line |-> 2, column |-> 5]],
   context |-> <<"y">>, description |-> <<"e">>,
   hasExpressionText |-> TRUE, expressionText |-> <<"a", " ", " ", ">", "\t", "b">>]

ThirdMutant ==
  [id |-> <<"a", "-", "2">>, fileName |-> <<"a">>, mutatorName |-> BoundaryCondition,
   original |-> <<">">>, replacement |-> <<"<">>,
   location |-> [start |-> [line |-> 1, column |-> 3], end |-> [line |-> 1, column |-> 4]],
   context |-> <<"x">>, description |-> <<"f">>,
   hasExpressionText |-> FALSE, expressionText |-> <<>>]

\* The inputs of the calls.
CallInputs ==
  {<<>>, <<FirstMutant>>, <<SecondMutant>>, <<FirstMutant, SecondMutant>>,
   <<ThirdMutant, FirstMutant>>, <<SecondMutant, ThirdMutant, FirstMutant>>}

\* A caller is about to make the first of several calls of
\* groupMutantsBySignature; `calls` holds the input and the result of every
\* call before the latest one, as the caller still holds them.
InitCalls ==
  /\ mutants \in CallInputs
  /\ groups = <<>>
  /\ calls = <<>>
  /\ args = <<>>
  /\ entryPoint = Module
  /\ pc = "call"
  /\ options = NoOptions
  /\ disk = NoFiles
  /\ git = <<>>
  /\ changedFilesCalls = 0
  /\ filePaths = <<>>
  /\ fileIdx = 0
  /\ currentId = 0
  /\ allMutants = <<>>

\* The caller keeps the input and the result of the call that has returned and
\* sets out to make the next call with another input.
CallAgain ==
  /\ pc = "returned"
  /\ Len(calls) + 1 < MaxCalls
  /\ calls' = Append(calls, [input |-> mutants, result |-> groups])
  /\ mutants' \in CallInputs
  /\ pc' = "call"
  /\ UNCHANGED <<args, entryPoint,
                 options, disk, git, changedFilesCalls, filePaths, fileIdx, currentId,
                 allMutants, groups>>

NextCalls == GroupCall \/ CallAgain

SpecCalls == InitCalls /\ [][NextCalls]_vars

\* ---------------------------------------------------------------- grouping claims
\* The input positions held by the instances of group g.
InstanceSet(g) == {groups[g].instances[k] : k \in 1..Len(groups[g].instances)}

RECURSIVE SumOfInstances(_)
SumOfInstances(g) ==
  IF g = 0 THEN 0 ELSE Len(groups[g].instances) + SumOfInstances(g - 1)

\* C1: the groups returned by groupMutantsBySignature partition the input:
\* every input mutant is an instance of exactly one group, exactly once, every
\* group has at least one instance, and the instance counts add up to the
\* length of the input.
C1_GroupsPartitionInput ==
  pc = "returned" =>
    /\ \A i \in 1..Len(mutants) :
         Cardinality({gk \in {<<g, k>> : g \in 1..Len(groups), k \in 1..MaxMutants + 1} :
                        /\ gk[2] <= Len(groups[gk[1]].instances)
                        /\ groups[gk[1]].instances[gk[2]] = i}) = 1
    /\ \A g \in 1..Len(groups) :
         /\ Len(groups[g].instances) >= 1
         /\ InstanceSet(g) \subseteq 1..Len(mutants)
    /\ SumOfInstances(Len(groups)) = Len(mutants)

C1_Witness ==
  /\ pc = "returned"
  /\ Len(mutants) = 3
  /\ Len(groups) = 2
  /\ \E g \in 1..Len(groups) : Len(groups[g].instances) = 2

RECURSIVE SplitWords(_, _)
\* The maximal whitespace-free pieces of s, in order (cur is the piece being
\* read). Two strings are equal after collapsing whitespace runs and trimming
\* exactly when they have the same pieces.
SplitWords(s, cur) ==
  IF s = <<>> THEN (IF cur = <<>> THEN <<>> ELSE <<cur>>)
  ELSE IF Head(s) \in Whitespace
       THEN (IF cur = <<>> THEN <<>> ELSE <<cur>>) \o SplitWords(Tail(s), <<>>)
       ELSE SplitWords(Tail(s), Append(cur, Head(s)))

\* Same mutatorName, original, replacement and the same expressionText up to
\* whitespace (both absent, or both present with the same pieces).
SameKeyFields(m1, m2) ==
  /\ m1.mutatorName = m2.mutatorName
  /\ m1.original = m2.original
  /\ m1.replacement = m2.replacement
  /\ m1.hasExpressionText = m2.hasExpressionText
  /\ SplitWords(m1.expressionText, <<>>) = SplitWords(m2.expressionText, <<>>)

\* The group that holds input position i.
GroupOf(gs, i) ==
  CHOOSE g \in 1..Len(gs) : \E k \in 1..Len(gs[g].instances) : gs[g].instances[k] = i

\* The input with the mutant at position i moved to another file and location.
Relocated(ms, i) ==
  [ms EXCEPT ![i].fileName = <<"z">> \o @,
             ![i].location = [start |-> [line |-> @.start.line + 7, column |-> 9],
                              end |-> [line |-> @.end.line + 7, column |-> 11]]]

\* The instances of every group, in group order.
InstancesOf(gs) == [g \in 1..Len(gs) |-> gs[g].instances]

C3_SameGroupSameKey ==
  pc = "returned" =>
    \A g \in 1..Len(groups) : \A i, j \in InstanceSet(g) :
      /\ mutants[i].mutatorName = mutants[j].mutatorName
      /\ mutants[i].original = mutants[j].original
      /\ mutants[i].replacement = mutants[j].replacement
      /\ SplitWords(ExprTextOrOriginal(mutants[i]), <<>>)
           = SplitWords(ExprTextOrOriginal(mutants[j]), <<>>)

\* C4: the groups are ordered by the input position of their first mutant, the
\* instances of a group are in input order, instances[0] is the first input
\* mutant with the group's signature, and the group's mutatorName, original,
\* replacement and description are those of instances[0].
C4_FirstSeenOrder ==
  pc = "returned" =>
    /\ \A g, h \in 1..Len(groups) :
         g < h => groups[g].instances[1] < groups[h].instances[1]
    /\ \A g \in 1..Len(groups) :
         LET inst == groups[g].instances
             first == mutants[inst[1]]
         IN /\ \A k \in 1..Len(inst) - 1 : inst[k] < inst[k + 1]
            /\ \A j \in 1..inst[1] - 1 : Signature(mutants[j]) # groups[g].signature
            /\ Signature(first) = groups[g].signature
            /\ groups[g].mutatorName = first.mutatorName
            /\ groups[g].original = first.original
            /\ groups[g].replacement = first.replacement
            /\ groups[g].description = first.description

C4_Witness ==
  /\ pc = "returned"
  /\ Len(groups) = 2
  /\ groups[1].instances = <<1, 3>>
  /\ groups[2].instances = <<2>>
  /\ mutants[1].description # mutants[3].description

\* ---------------------------------------------------------------- collector claims
\* generateMutants has just returned `mutants`.
Returned == pc = "done"

\* The files the returned mutants were collected from.
ResultFiles == {relativeFileName(filePaths[i]) : i \in 1..Len(filePaths)}

RECURSIVE InFile(_, _)
\* The mutants of ms found in file f, in order.
InFile(ms, f) ==
  IF ms = <<>> THEN <<>>
  ELSE (IF Head(ms).fileName = f THEN <<Head(ms)>> ELSE <<>>) \o InFile(Tail(ms), f)

RECURSIVE Named(_, _)
\* The mutants of ms that carry one of the given mutator names, in order.
Named(ms, names) ==
  IF ms = <<>> THEN <<>>
  ELSE (IF Head(ms).mutatorName \in names THEN <<Head(ms)>> ELSE <<>>)
       \o Named(Tail(ms), names)

RECURSIVE LocatedAt(_, _)
\* The mutants of ms with the given location, in order.
LocatedAt(ms, location) ==
  IF ms = <<>> THEN <<>>
  ELSE (IF Head(ms).location = location THEN <<Head(ms)>> ELSE <<>>)
       \o LocatedAt(Tail(ms), location)

\* The mutants of file f in the returned sequence, in order.
MutantsOf(f) == InFile(mutants, f)

\* The mutants of file f that carry one of the given mutator names, in order.
MutantsNamed(f, names) == Named(MutantsOf(f), names)

RECURSIVE NodesUnder(_, _)
\* Every node below `node`, with its position, as a set.
NodesUnder(node, start) ==
  UNION {{Visited(node.kids[k], KidStart(node, start, k))}
           \cup NodesUnder(node.kids[k], KidStart(node, start, k)) :
         k \in 1..Len(node.kids)}

\* The nodes of file f of the given kinds.
NodesOfKind(f, kinds) ==
  {v \in NodesUnder(disk[f].sourceFile, 0) : v.node.kind \in kinds}

\* The line and column span of the offsets from..to of file f, counted on the
\* file's text.
SpanIn(f, from, to) ==
  LET text == NodeText(disk[f].sourceFile)
      fromBreaks == {i \in 1..from : text[i] = "\n"}
      toBreaks == {i \in 1..to : text[i] = "\n"}
  IN [start |-> [line |-> 1 + Cardinality(fromBreaks),
                 column |-> from - Max(fromBreaks \cup {0}) + 1],
      end |-> [line |-> 1 + Cardinality(toBreaks),
               column |-> to - Max(toBreaks \cup {0}) + 1]]

\* The span of the operator token of the binary expression v of file f.
OperatorSpan(f, v) ==
  LET from == v.start + Len(NodeText(v.node.kids[1])) + Len(v.node.sp)
  IN SpanIn(f, from, from + Len(v.node.op))

\* The span of the guard of the if statement v of file f.
GuardSpan(f, v) ==
  LET from == v.start + 4
  IN SpanIn(f, from, from + Len(NodeText(v.node.kids[1])))

RelationalOperators == {<<">">>, <<"<">>, <<">", "=">>, <<"<", "=">>}

\* The elements of a sequence.
Range(seq) == {seq[k] : k \in 1..Len(seq)}

\* C5: every binary expression whose operator is one of > < >= <= gets exactly
\* 3 mutants from the binary pass, each named BoundaryCondition with the
\* operator as original, and their replacements are exactly the other three
\* operators of the family.
C5_BoundaryThreeMutants ==
  Returned =>
    \A f \in ResultFiles :
      \A v \in NodesOfKind(f, {"BinaryExpression"}) :
        v.node.op \in RelationalOperators =>
          LET ms == LocatedAt(MutantsNamed(f, {BinaryOperator, BoundaryCondition}),
                              OperatorSpan(f, v))
          IN /\ Len(ms) = 3
             /\ \A k \in 1..Len(ms) :
                  /\ ms[k].mutatorName = BoundaryCondition
                  /\ ms[k].original = v.node.op
             /\ {ms[k].replacement : k \in 1..Len(ms)} = RelationalOperators \ {v.node.op}

C5_Witness ==
  /\ Returned
  /\ \E f \in ResultFiles :
       /\ \E v \in NodesOfKind(f, {"BinaryExpression"}) : v.node.op = <<">">>
       /\ \E v \in NodesOfKind(f, {"BinaryExpression"}) : v.node.op = <<"<", "=">>
       /\ Len(MutantsNamed(f, {BoundaryCondition})) = 6

\* C6: every if statement (nested and else-if ones too) gets exactly 2
\* ConditionalRemoval mutants, one right after the other, located at the span
\* of its guard, with the guard's text as original and expressionText; the
\* first forces the if-branch and the second the else-branch; and a file has
\* twice as many conditional mutants as if statements.
C6_TwoMutantsPerIf ==
  Returned =>
    \A f \in ResultFiles :
      LET cs == MutantsNamed(f, {ConditionalRemoval})
          ifs == NodesOfKind(f, {"IfStatement"})
      IN /\ Len(cs) = 2 * Cardinality(ifs)
         /\ \A v \in ifs :
              LET at == {k \in 1..Len(cs) : cs[k].location = GuardSpan(f, v)}
                  guard == NodeText(v.node.kids[1])
              IN /\ Cardinality(at) = 2
                 /\ \E k \in at :
                      /\ k + 1 \in at
                      /\ cs[k].replacement = ForceIfBranch
                      /\ cs[k + 1].replacement = ForceElseBranch
                      /\ cs[k].original = guard /\ cs[k + 1].original = guard
                      /\ cs[k].expressionText = guard /\ cs[k + 1].expressionText = guard

C6_Witness ==
  /\ Returned
  /\ \E f \in ResultFiles :
       /\ Len(MutantsNamed(f, {ConditionalRemoval})) = 8
       /\ \E v \in NodesOfKind(f, {"IfStatement"}) :
            /\ Len(v.node.kids) = 3
            /\ v.node.kids[3].kind = "IfStatement"
       /\ \E v \in NodesOfKind(f, {"IfStatement"}) :
            v.node.kids[2].kind = "IfStatement"

\* C7: every true or false literal gets exactly 1 BooleanLiteral mutant, located
\* at the literal, with the literal's text as original and the opposite
\* literal as replacement; no other node gets a BooleanLiteral mutant.
C7_OneMutantPerLiteral ==
  Returned =>
    \A f \in ResultFiles :
      LET bs == MutantsNamed(f, {BooleanLiteral})
          literals == NodesOfKind(f, {"TrueKeyword", "FalseKeyword"})
      IN /\ Len(bs) = Cardinality(literals)
         /\ \A v \in literals :
              LET at == {k \in 1..Len(bs) : bs[k].location = SpanIn(f, v.start, v.end)}
              IN /\ Cardinality(at) = 1
                 /\ \A k \in at :
                      /\ bs[k].original = v.node.text
                      /\ v.node.kind = "TrueKeyword" =>
                           /\ bs[k].original = <<"t", "r", "u", "e">>
                           /\ bs[k].replacement = <<"f", "a", "l", "s", "e">>
                      /\ v.node.kind = "FalseKeyword" =>
                           /\ bs[k].original = <<"f", "a", "l", "s", "e">>
                           /\ bs[k].replacement = <<"t", "r", "u", "e">>

C7_Witness ==
  /\ Returned
  /\ \E f \in ResultFiles :
       /\ \E k \in 1..Len(MutantsOf(f)) :
            /\ MutantsOf(f)[k].mutatorName = BooleanLiteral
            /\ MutantsOf(f)[k].replacement = <<"f", "a", "l", "s", "e">>
       /\ \E k \in 1..Len(MutantsOf(f)) :
            /\ MutantsOf(f)[k].mutatorName = BooleanLiteral
            /\ MutantsOf(f)[k].replacement = <<"t", "r", "u", "e">>
       /\ \E k \in 1..Len(MutantsOf(f)) : MutantsOf(f)[k].mutatorName = BoundaryCondition

\* The pass a mutant comes from, by its mutator name: 1 binary, 2 unary,
\* 3 boolean-literal, 4 conditional.
Category(m) ==
  CASE m.mutatorName \in {BinaryOperator, BoundaryCondition} -> 1
    [] m.mutatorName = UnaryOperator -> 2
    [] m.mutatorName = BooleanLiteral -> 3
    [] m.mutatorName = ConditionalRemoval -> 4

\* The nodes of file f a pass makes mutants for, each with the pass, the span
\* of the token or expression the pass mutates, and the node's own extent.
MutatedNodes(f) ==
  {[category |-> 1, location |-> OperatorSpan(f, v), start |-> v.start, end |-> v.end] :
     v \in NodesOfKind(f, {"BinaryExpression"})}
  \cup {[category |-> 2, location |-> SpanIn(f, v.start, v.start + Len(v.node.op)),
         start |-> v.start, end |-> v.end] :
          v \in NodesOfKind(f, {"PrefixUnaryExpression"})}
  \cup {[category |-> 3, location |-> SpanIn(f, v.start, v.end),
         start |-> v.start, end |-> v.end] :
          v \in NodesOfKind(f, {"TrueKeyword", "FalseKeyword"})}
  \cup {[category |-> 4, location |-> GuardSpan(f, v), start |-> v.start, end |-> v.end] :
          v \in NodesOfKind(f, {"IfStatement"})}

\* The node the mutant m was made for: the node of m's pass whose mutated
\* span is m's location.
NodeOfMutant(nodes, m) ==
  CHOOSE n \in nodes : n.category = Category(m) /\ n.location = m.location

\* Node v comes before node w in a depth-first pre-order walk: it starts
\* earlier, or it starts at the same place and contains w.
WalkedBefore(v, w) ==
  \/ v.start < w.start
  \/ v.start = w.start /\ v.end > w.end

Digits == <<"0", "1", "2", "3", "4", "5", "6", "7", "8", "9">>

\* The number a decimal numeral without sign and leading zero stands for, -1
\* when the string is no such numeral (read for numerals of up to 3 digits).
NumeralValue(s) ==
  LET digitValue == [c \in Range(Digits) |-> (CHOOSE d \in 1..10 : Digits[d] = c) - 1]
  IN IF \/ s = <<>>
        \/ Len(s) > 3
        \/ \E i \in 1..Len(s) : s[i] \notin Range(Digits)
        \/ Len(s) > 1 /\ s[1] = "0"
     THEN -1
     ELSE IF Len(s) = 1 THEN digitValue[s[1]]
          ELSE IF Len(s) = 2 THEN 10 * digitValue[s[1]] + digitValue[s[2]]
               ELSE 100 * digitValue[s[1]] + 10 * digitValue[s[2]] + digitValue[s[3]]

\* The part of a path after its last "/".
LastSegment(path) ==
  LET slashes == {i \in 1..Len(path) : path[i] = "/"}
  IN SubSeq(path, Max(slashes \cup {0}) + 1, Len(path))

\* C8: in the mutants of one file the binary-pass mutants come first, then the
\* unary, the boolean-literal and the conditional ones, each pass in tree-walk
\* order; and the k-th mutant of the file has the id '<basename>-k', so the
\* numbers rise by one from 1 and no two mutants of a file share an id.
C8_CategoryOrderAndIds ==
  Returned =>
    \A f \in ResultFiles :
      LET ms == MutantsOf(f)
          prefix == LastSegment(f) \o <<"-">>
          nodes == MutatedNodes(f)
      IN /\ \A k \in 1..Len(ms) - 1 :
              /\ Category(ms[k]) <= Category(ms[k + 1])
              /\ (/\ Category(ms[k]) = Category(ms[k + 1])
                  /\ ms[k].location # ms[k + 1].location)
                 => WalkedBefore(NodeOfMutant(nodes, ms[k]), NodeOfMutant(nodes, ms[k + 1]))
         /\ \A k \in 1..Len(ms) :
              /\ Len(ms[k].id) > Len(prefix)
              /\ SubSeq(ms[k].id, 1, Len(prefix)) = prefix
              /\ NumeralValue(SubSeq(ms[k].id, Len(prefix) + 1, Len(ms[k].id))) = k
         /\ \A j, k \in 1..Len(ms) : j # k => ms[j].id # ms[k].id

C8_Witness ==
  /\ Returned
  /\ \E f \in ResultFiles :
       /\ {Category(MutantsOf(f)[k]) : k \in 1..Len(MutantsOf(f))} = {1, 2, 3, 4}
       /\ Len(MutantsOf(f)) >= 10
       /\ f # LastSegment(f)

\* The replacement strings of the two operator tables.
TableReplacements ==
  UNION {Range(BINARY_OPERATOR_MUTATIONS(operator)) : operator \in BinaryTableKeys}
    \cup UNION {Range(UNARY_OPERATOR_MUTATIONS(operator).replacements) :
                  operator \in UnaryTableKeys}

\* The prefix operators whose table replacement is the empty string.
DeletedOperators ==
  {UNARY_OPERATOR_MUTATIONS(operator).original :
     operator \in {o \in UnaryTableKeys :
                     <<>> \in Range(UNARY_OPERATOR_MUTATIONS(o).replacements)}}

\* m reports the deletion of a prefix operator.
IsDeletion(m) == m.mutatorName = UnaryOperator /\ m.original \in DeletedOperators

\* C9: a mutant made for a prefix '!' (or any prefix operator whose table
\* replacement is empty) has the replacement '(removed)', which is no
\* replacement string of either table; and groupMutantsBySignature puts no such
\* mutant in a group with a mutant whose replacement is an operator of the
\* tables, in the grouped result and also for a mutant that differs from it in
\* the replacement alone.
C9_DeletionMarker ==
  /\ Removed \notin TableReplacements
  /\ \A k \in 1..Len(allMutants) :
       IsDeletion(allMutants[k]) => allMutants[k].replacement = Removed
  /\ Returned =>
       \A f \in ResultFiles :
         \A v \in NodesOfKind(f, {"PrefixUnaryExpression"}) :
           v.node.op \in DeletedOperators =>
             \E k \in 1..Len(mutants) :
               /\ mutants[k].fileName = f
               /\ mutants[k].location = SpanIn(f, v.start, v.start + Len(v.node.op))
               /\ IsDeletion(mutants[k])
               /\ mutants[k].replacement = Removed
  /\ pc = "grouped" =>
       /\ \A g \in 1..Len(groups) : \A i, j \in InstanceSet(g) :
            IsDeletion(mutants[i]) => mutants[j].replacement \notin TableReplacements \ {<<>>}
       /\ \A i \in 1..Len(mutants) :
            IsDeletion(mutants[i]) =>
              \A r \in TableReplacements \ {<<>>} :
                Len(groupMutantsBySignature(
                      <<mutants[i], [mutants[i] EXCEPT !.replacement = r]>>)) = 2

C9_Witness ==
  /\ pc = "grouped"
  /\ \E i, j \in 1..Len(mutants) :
       /\ IsDeletion(mutants[i])
       /\ mutants[i].original = <<"-">>
       /\ mutants[j].mutatorName = BinaryOperator
       /\ mutants[j].original = <<"-">>
       /\ GroupOf(groups, i) # GroupOf(groups, j)
  /\ \E i \in 1..Len(mutants) : IsDeletion(mutants[i]) /\ mutants[i].original = <<"!">>

\* C10: every mutant of the four passes has an original that differs from its
\* replacement: no operator of a table lists itself, a literal is replaced by
\* the other literal, a deleted operator is reported as '(removed)', and a
\* conditional mutant's replacement is one of the two forcing strings.
C10_OriginalDiffersFromReplacement ==
  /\ \A operator \in BinaryTableKeys :
       operator \notin Range(BINARY_OPERATOR_MUTATIONS(operator))
  /\ \A operator \in UnaryTableKeys :
       UNARY_OPERATOR_MUTATIONS(operator).original
         \notin Range(UNARY_OPERATOR_MUTATIONS(operator).replacements)
  /\ \A k \in 1..Len(allMutants) :
       LET m == allMutants[k]
       IN /\ m.original # m.replacement
          /\ Category(m) = 3 =>
               {m.original, m.replacement} = {<<"t", "r", "u", "e">>, <<"f", "a", "l", "s", "e">>}
          /\ Category(m) = 4 => m.replacement \in {ForceIfBranch, ForceElseBranch}
          /\ (Category(m) = 2 /\ m.original \in DeletedOperators) => m.replacement = Removed

C10_Witness ==
  /\ pc = "next"
  /\ {Category(allMutants[k]) : k \in 1..Len(allMutants)} = {1, 2, 3, 4}
  /\ \E k \in 1..Len(allMutants) : allMutants[k].replacement = Removed

\* ---------------------------------------------------------------- aggregation claims
\* The candidate file f was processed exactly once.
Once(f) == Cardinality({i \in 1..Len(filePaths) : relativeFileName(filePaths[i]) = f}) = 1

RECURSIVE WithOriginal(_, _)
\* The mutants of ms with the given original, in order.
WithOriginal(ms, original) ==
  IF ms = <<>> THEN <<>>
  ELSE (IF Head(ms).original = original THEN <<Head(ms)>> ELSE <<>>)
       \o WithOriginal(Tail(ms), original)

\* The number at the end of the id of mutant m of file f, -1 when the id is
\* not '<basename of f>-<number>'.
IdNumber(f, m) ==
  LET prefix == LastSegment(f) \o <<"-">>
  IN IF Len(m.id) > Len(prefix) /\ SubSeq(m.id, 1, Len(prefix)) = prefix
     THEN NumeralValue(SubSeq(m.id, Len(prefix) + 1, Len(m.id)))
     ELSE -1

\* C11: a file that holds only the function clamp of the example gets exactly
\* 10 mutants: 3 BoundaryCondition mutants for '<' and 3 for '>', then 2
\* ConditionalRemoval mutants for each of the two if statements, no
\* BinaryOperator, UnaryOperator or BooleanLiteral mutant, with the ids
\* numbered 1 to 10 in that order.
C11_ClampTenMutants ==
  Returned =>
    \A f \in ResultFiles :
      (disk[f].sourceFile = ClampFile /\ Once(f)) =>
        LET ms == MutantsOf(f)
            boundary == Named(ms, {BoundaryCondition})
            conditional == Named(ms, {ConditionalRemoval})
        IN /\ Len(ms) = 10
           /\ Len(boundary) = 6
           /\ Len(WithOriginal(boundary, <<"<">>)) = 3
           /\ Len(WithOriginal(boundary, <<">">>)) = 3
           /\ Len(conditional) = 4
           /\ Len(WithOriginal(conditional, <<"v", "a", "l", "u", "e", " ", "<", " ", "m", "i", "n">>)) = 2
           /\ Len(WithOriginal(conditional, <<"v", "a", "l", "u", "e", " ", ">", " ", "m", "a", "x">>)) = 2
           /\ Named(ms, {BinaryOperator, UnaryOperator, BooleanLiteral}) = <<>>
           /\ SubSeq(ms, 1, 6) = boundary
           /\ SubSeq(ms, 7, 10) = conditional
           /\ \A k \in 1..10 : IdNumber(f, ms[k]) = k

C11_Witness ==
  /\ Returned
  /\ \E f \in ResultFiles :
       /\ disk[f].sourceFile = ClampFile
       /\ Once(f)
       /\ Len(MutantsOf(f)) = 10
       /\ Len(mutants) > 10

\* The candidate files of the call, before any of them is dropped: the list
\* the caller gave, else the lines of the change-set.
Candidates ==
  IF Len(options.files) > 0 THEN options.files
  ELSE IF options.fromGitDiff THEN git ELSE <<>>

\* The candidate path p names something generateMutants can read and parse.
Usable(p) ==
  /\ relativeFileName(p) \in DOMAIN disk
  /\ disk[relativeFileName(p)].exists
  /\ disk[relativeFileName(p)].readable

\* C12: a candidate file that does not exist or cannot be read is dropped
\* silently: the call never ends with an error, and when it returns, the
\* result holds no mutant of such a file and holds the mutants of every other
\* candidate file that has any.
C12_UnusableFilesDropped ==
  /\ pc # "thrown"
  /\ Returned =>
       \A i \in 1..Len(Candidates) :
         LET f == relativeFileName(Candidates[i])
         IN /\ ~Usable(Candidates[i]) => MutantsOf(f) = <<>>
            /\ (/\ Len(options.files) > 0
                /\ Usable(Candidates[i])
                /\ disk[f].sourceFile # SourceFile(<<>>))
               => MutantsOf(f) # <<>>

\* One iteration of the loop over filePaths, lines 269-288: the four passes
\* over the file at path p, each started at the count of the passes before it.
PerFileMutants(p) ==
  LET fileName == relativeFileName(p)
      sourceFile == disk[fileName].sourceFile
      binaryMutants == collectBinaryMutations(sourceFile, fileName)
      unaryMutants == collectUnaryMutations(sourceFile, fileName, Len(binaryMutants))
      booleanMutants ==
        collectBooleanMutations(sourceFile, fileName, Len(binaryMutants) + Len(unaryMutants))
      conditionalMutants ==
        collectConditionalMutations(sourceFile, fileName,
          Len(binaryMutants) + Len(unaryMutants) + Len(booleanMutants))
  IN binaryMutants \o unaryMutants \o booleanMutants \o conditionalMutants

RECURSIVE PerFileMutantsFrom(_)
\* The per-file sequences of the candidate files i.., one after the other.
PerFileMutantsFrom(i) ==
  IF i > Len(filePaths) THEN <<>>
  ELSE PerFileMutants(filePaths[i]) \o PerFileMutantsFrom(i + 1)

\* The place in filePaths of the file mutant m was found in.
FileIndex(m) ==
  CHOOSE i \in 1..Len(filePaths) :
    /\ relativeFileName(filePaths[i]) = m.fileName
    /\ \A j \in 1..i - 1 : relativeFileName(filePaths[j]) # m.fileName

\* C13: the returned sequence is the per-file sequences of the candidate
\* files one after the other in the order the files were given: the mutants
\* of a file are never before those of an earlier file, and wherever the
\* mutants of a file begin the id is '<basename>-1', however many mutants the
\* files before it produced.
C13_ConcatenationInFileOrder ==
  Returned =>
    /\ mutants = PerFileMutantsFrom(1)
    /\ \A k \in 1..Len(mutants) :
         /\ \E i \in 1..Len(filePaths) : relativeFileName(filePaths[i]) = mutants[k].fileName
         /\ k > 1 => FileIndex(mutants[k - 1]) <= FileIndex(mutants[k])
         /\ (k = 1 \/ mutants[k - 1].fileName # mutants[k].fileName)
            => IdNumber(mutants[k].fileName, mutants[k]) = 1

C13_Witness ==
  /\ Returned
  /\ Len(filePaths) = 2
  /\ \E k \in 11..Len(mutants) :
       /\ mutants[k - 1].fileName = relativeFileName(filePaths[1])
       /\ mutants[k].fileName = relativeFileName(filePaths[2])
       /\ mutants[k].fileName # mutants[k - 1].fileName
       /\ IdNumber(mutants[k].fileName, mutants[k]) = 1
       /\ IdNumber(mutants[k - 1].fileName, mutants[k - 1]) = k - 1
       /\ disk[mutants[k].fileName].sourceFile # disk[mutants[k - 1].fileName].sourceFile

\* ---------------------------------------------------------------- pass claims
\* Each operator with a binary-table entry and its replacements in the order
\* they are to be reported.
ListedBinaryReplacements ==
  {<<<<"+">>, <<<<"-">>>>>>,
   <<<<"-">>, <<<<"+">>>>>>,
   <<<<"*">>, <<<<"/">>>>>>,
   <<<<"/">>, <<<<"*">>>>>>,
   <<<<"%">>, <<<<"*">>>>>>,
   <<<<"=", "=", "=">>, <<<<"!", "=", "=">>>>>>,
   <<<<"!", "=", "=">>, <<<<"=", "=", "=">>>>>>,
   <<<<"=", "=">>, <<<<"!", "=">>>>>>,
   <<<<"!", "=">>, <<<<"=", "=">>>>>>,
   <<<<"&", "&">>, <<<<"|", "|">>>>>>,
   <<<<"|", "|">>, <<<<"&", "&">>>>>>,
   <<<<">">>, <<<<">", "=">>, <<"<">>, <<"<", "=">>>>>>,
   <<<<"<">>, <<<<"<", "=">>, <<">">>, <<">", "=">>>>>>,
   <<<<">", "=">>, <<<<">">>, <<"<">>, <<"<", "=">>>>>>,
   <<<<"<", "=">>, <<<<"<">>, <<">">>, <<">", "=">>>>>>}

\* The replacements of the mutants of ms, in order.
ReplacementsOf(ms) == [k \in 1..Len(ms) |-> ms[k].replacement]

\* C14: for every binary expression the binary pass reports one mutant per
\* replacement listed for its operator, in the listed order, and none when the
\* operator is not listed (=, ??); each of them has the operator as original,
\* the text of the whole binary expression as expressionText, and the name
\* BoundaryCondition exactly when the operator is one of > < >= <=, else
\* BinaryOperator; and the pass reports nothing else.
C14_BinaryPassFollowsTable ==
  Returned =>
    \A f \in ResultFiles :
      LET reported == MutantsNamed(f, {BinaryOperator, BoundaryCondition})
          nodes == NodesOfKind(f, {"BinaryExpression"})
      IN /\ \A v \in nodes :
              LET ms == LocatedAt(reported, OperatorSpan(f, v))
              IN /\ \A listed \in ListedBinaryReplacements :
                      listed[1] = v.node.op => ReplacementsOf(ms) = listed[2]
                 /\ (\A listed \in ListedBinaryReplacements : listed[1] # v.node.op)
                      => ms = <<>>
                 /\ \A k \in 1..Len(ms) :
                      /\ ms[k].original = v.node.op
                      /\ ms[k].hasExpressionText
                      /\ ms[k].expressionText = NodeText(v.node)
                      /\ ms[k].mutatorName =
                           IF v.node.op \in RelationalOperators THEN BoundaryCondition
                           ELSE BinaryOperator
         /\ \A k \in 1..Len(reported) :
              \E v \in nodes : OperatorSpan(f, v) = reported[k].location

C14_Witness ==
  /\ Returned
  /\ \E f \in ResultFiles :
       /\ \E v \in NodesOfKind(f, {"BinaryExpression"}) : v.node.op = <<"=">>
       /\ \E v \in NodesOfKind(f, {"BinaryExpression"}) : v.node.op = <<"?", "?">>
       /\ \E k \in 1..Len(MutantsOf(f)) :
            /\ MutantsOf(f)[k].original = <<"%">>
            /\ MutantsOf(f)[k].replacement = <<"*">>
            /\ MutantsOf(f)[k].mutatorName = BinaryOperator
            /\ MutantsOf(f)[k].expressionText = <<"a", " ", "*", " ", "b", " ", "/", " ", "a", " ", "%", " ", "b">>

\* Each prefix operator that is to be mutated, with the replacement to report.
ListedUnaryReplacements ==
  {<<<<"!">>, <<"(", "r", "e", "m", "o", "v", "e", "d", ")">>>>,
   <<<<"-">>, <<"(", "r", "e", "m", "o", "v", "e", "d", ")">>>>,
   <<<<"+">>, <<"-">>>>,
   <<<<"+", "+">>, <<"-", "-">>>>,
   <<<<"-", "-">>, <<"+", "+">>>>}

RECURSIVE StartingAt(_, _)
\* The mutants of ms whose location starts at the given line and column.
StartingAt(ms, start) ==
  IF ms = <<>> THEN <<>>
  ELSE (IF Head(ms).location.start = start THEN <<Head(ms)>> ELSE <<>>)
       \o StartingAt(Tail(ms), start)

\* The position p is not after the position q.
NotAfter(p, q) == p.line < q.line \/ (p.line = q.line /\ p.column <= q.column)

\* C15: for every prefix unary expression the unary pass reports exactly one
\* UnaryOperator mutant when the operator is one of ! - + ++ -- and none
\* otherwise (~); its replacement is '(removed)' for '!' and '-', '-' for '+',
\* '--' for '++' and '++' for '--'; its location starts where the expression
\* starts and ends length(original) characters later, the characters between
\* being the operator itself, and the start is not after the end; and the
\* pass reports nothing else.
C15_UnaryPassFollowsTable ==
  Returned =>
    \A f \in ResultFiles :
      LET reported == MutantsNamed(f, {UnaryOperator})
          nodes == NodesOfKind(f, {"PrefixUnaryExpression"})
          text == NodeText(disk[f].sourceFile)
      IN /\ \A v \in nodes :
              LET ms == StartingAt(reported, SpanIn(f, v.start, v.start).start)
              IN /\ \A listed \in ListedUnaryReplacements :
                      listed[1] = v.node.op
                        => Len(ms) = 1 /\ ms[1].replacement = listed[2]
                 /\ (\A listed \in ListedUnaryReplacements : listed[1] # v.node.op)
                      => ms = <<>>
                 /\ \A k \in 1..Len(ms) :
                      /\ ms[k].original = v.node.op
                      /\ ms[k].location = SpanIn(f, v.start, v.start + Len(ms[k].original))
                      /\ SubSeq(text, v.start + 1, v.start + Len(ms[k].original))
                           = ms[k].original
                      /\ NotAfter(ms[k].location.start, ms[k].location.end)
         /\ \A k \in 1..Len(reported) :
              \E v \in nodes : SpanIn(f, v.start, v.start).start = reported[k].location.start

C15_Witness ==
  /\ Returned
  /\ \E f \in ResultFiles :
       /\ \E v \in NodesOfKind(f, {"PrefixUnaryExpression"}) : v.node.op = <<"~">>
       /\ {<<m.original, m.replacement>> : m \in Range(MutantsNamed(f, {UnaryOperator}))}
            = ListedUnaryReplacements
       /\ \E m \in Range(MutantsNamed(f, {UnaryOperator})) :
            /\ m.location.start.line = 2
            /\ m.location.end.column = m.location.start.column + 2

\* ---------------------------------------------------------------- fallback claim
\* Same mutatorName, original and replacement.
SameOperatorFields(m1, m2) ==
  /\ m1.mutatorName = m2.mutatorName
  /\ m1.original = m2.original
  /\ m1.replacement = m2.replacement

\* C16: a mutant without expressionText is grouped as if its expressionText
\* were its original: it shares a group with every mutant of the same
\* mutatorName, original and replacement that has no expressionText either or
\* whose expressionText equals the original up to whitespace; and two mutants
\* that both have an expressionText (and the same mutatorName, original and
\* replacement) share a group exactly when their expressionTexts are the same
\* up to whitespace, so the fallback never decides for them.
C16_FallbackOnlyWhenAbsent ==
  pc = "returned" =>
    \A i, j \in 1..Len(mutants) :
      SameOperatorFields(mutants[i], mutants[j]) =>
        /\ (/\ ~mutants[i].hasExpressionText
            /\ \/ ~mutants[j].hasExpressionText
               \/ SplitWords(mutants[j].expressionText, <<>>)
                    = SplitWords(mutants[j].original, <<>>))
           => GroupOf(groups, i) = GroupOf(groups, j)
        /\ (mutants[i].hasExpressionText /\ mutants[j].hasExpressionText)
           => (GroupOf(groups, i) = GroupOf(groups, j)
                 <=> SplitWords(mutants[i].expressionText, <<>>)
                       = SplitWords(mutants[j].expressionText, <<>>))

\* ---------------------------------------------------------------- context claim
\* The offset of the k-th line break of text; 0 for k = 0, and one past the
\* end of the text when it has fewer than k line breaks.
BreakAt(text, k) ==
  LET breaks == {i \in 1..Len(text) : text[i] = "\n"}
  IN IF k = 0 THEN 0
     ELSE IF k > Cardinality(breaks) THEN Len(text) + 1
          ELSE CHOOSE b \in breaks : Cardinality({c \in breaks : c <= b}) = k

\* The lines lo..hi of text with the line breaks between them.
LinesOf(text, lo, hi) == SubSeq(text, BreakAt(text, lo - 1) + 1, BreakAt(text, hi) - 1)

\* The window of lines claimed for the mutant m of the file with the given
\* text and mutated nodes: s and e are the
\* first and the last line of the construct m was made for, last is the last
\* line of the file, lo and hi are the first and the last line of the window.
WindowIn(text, nodes, m) ==
  LET node == NodeOfMutant(nodes, m)
      p == IF m.mutatorName = ConditionalRemoval THEN 3 ELSE 2
      s == 1 + Cardinality({i \in 1..node.start : text[i] = "\n"})
      e == 1 + Cardinality({i \in 1..node.end : text[i] = "\n"})
      last == 1 + Cardinality({i \in 1..Len(text) : text[i] = "\n"})
  IN [s |-> s, e |-> e, last |-> last,
      lo |-> IF s - p > 1 THEN s - p ELSE 1,
      hi |-> IF e + p < last THEN e + p ELSE last]

Window(f, m) == WindowIn(NodeText(disk[f].sourceFile), MutatedNodes(f), m)

\* C17: the context of every mutant is the lines max(1, s - p) to
\* min(L, e + p) of its file, with p = 2 for binary, unary and boolean-literal
\* mutants and p = 3 for conditional mutants, s and e the first and last line
\* of the mutated construct and L the last line of the file; the window stays
\* within 1..L and contains the lines s..e.
C17_ContextWindow ==
  Returned =>
    \A f \in ResultFiles :
      LET text == NodeText(disk[f].sourceFile)
          nodes == MutatedNodes(f)
      IN \A m \in Range(MutantsOf(f)) :
           LET w == WindowIn(text, nodes, m)
           IN /\ m.context = LinesOf(text, w.lo, w.hi)
              /\ 1 <= w.lo
              /\ w.lo <= w.s
              /\ w.s <= w.e
              /\ w.e <= w.hi
              /\ w.hi <= w.last

C17_Witness ==
  /\ Returned
  /\ \E f \in ResultFiles :
       /\ \E m \in Range(MutantsNamed(f, {ConditionalRemoval})) :
            /\ Window(f, m).lo = Window(f, m).s - 3
            /\ Window(f, m).lo > 1
            /\ Window(f, m).hi = Window(f, m).e + 3
            /\ Window(f, m).hi < Window(f, m).last
            /\ Window(f, m).s < Window(f, m).e
       /\ \E m \in Range(MutantsNamed(f, {UnaryOperator})) :
            /\ Window(f, m).lo = Window(f, m).s - 2
            /\ Window(f, m).hi = Window(f, m).e + 2
       /\ \E m \in Range(MutantsNamed(f, {BinaryOperator})) :
            Window(f, m).lo = 1 /\ Window(f, m).s < 3
       /\ \E m \in Range(MutantsNamed(f, {BooleanLiteral})) :
            Window(f, m).hi = Window(f, m).last /\ Window(f, m).e + 2 > Window(f, m).last

\* ---------------------------------------------------------------- frame claim
\* C18: a call of groupMutantsBySignature leaves its input as it was, returns
\* the groups of that input alone, whatever calls were made before, and
\* leaves the input and the groups of every earlier call as they were; the
\* caller's next call finds them unchanged too.
C18_GroupingKeepsNoState ==
  [][/\ pc = "call" =>
          /\ mutants' = mutants
          /\ groups' = GroupLoop(mutants, 1, <<>>)
          /\ calls' = calls
     /\ pc = "returned" =>
          /\ \A k \in 1..Len(calls) : calls'[k] = calls[k]
          /\ calls'[Len(calls')] = [input |-> mutants, result |-> groups]
          /\ \A k \in 1..Len(calls') :
               calls'[k].result = GroupLoop(calls'[k].input, 1, <<>>)]_vars

C18_Witness ==
  /\ pc = "returned"
  /\ Len(calls) = 2
  /\ calls[1].input = <<FirstMutant, SecondMutant>>
  /\ Len(calls[1].result) = 1
  /\ calls[2].input = <<SecondMutant>>
  /\ mutants = <<ThirdMutant, FirstMutant>>
  /\ Len(groups) = 2
  /\ groups[2].instances = <<2>>

\* ---------------------------------------------------------------- resolution claims
\* C19: when options.files is a non-empty list getChangedFiles is never
\* called, also with fromGitDiff set and also when every listed file is
\* missing, and then the result is the empty sequence; getChangedFiles is
\* called only when options.files is absent or empty and fromGitDiff is set;
\* and when no candidate file is left the call returns the empty sequence
\* and does not end with an error.
C19_GivenFilesBeforeChangeSet ==
  /\ Len(options.files) > 0 => changedFilesCalls = 0
  /\ changedFilesCalls > 0 => (Len(options.files) = 0 /\ options.fromGitDiff)
  /\ (pc # "start" /\ Len(options.files) = 0 /\ ~options.fromGitDiff) => filePaths = <<>>
  /\ (/\ Returned
      /\ Len(options.files) > 0
      /\ \A i \in 1..Len(options.files) : ~existsSync(disk, options.files[i]))
     => mutants = <<>>
  /\ (pc # "start" /\ filePaths = <<>>) => (pc # "thrown" /\ mutants = <<>>)

C19_Witness ==
  /\ Returned
  /\ options.files = <<PathA, PathC>>
  /\ options.fromGitDiff
  /\ \A i \in 1..Len(options.files) : ~existsSync(disk, options.files[i])
  /\ getChangedFiles(disk, git) # <<>>
  /\ disk[relativeFileName(PathB)].sourceFile = SampleFile
  /\ changedFilesCalls = 0
  /\ mutants = <<>>

\* The candidate files that were processed are pairwise distinct paths with
\* pairwise distinct base names.
DistinctBaseNames ==
  \A i, j \in 1..Len(filePaths) :
    i # j => (/\ filePaths[i] # filePaths[j]
              /\ LastSegment(filePaths[i]) # LastSegment(filePaths[j]))

\* C20: when the candidate files of a call are pairwise distinct paths with
\* pairwise distinct base names, no two mutants of the returned sequence have
\* the same id.
C20_DistinctBaseNamesDistinctIds ==
  (Returned /\ DistinctBaseNames) =>
    \A j, k \in 1..Len(mutants) : j # k => mutants[j].id # mutants[k].id

C20_Witness ==
  /\ Returned
  /\ DistinctBaseNames
  /\ Len(filePaths) = 2
  /\ \E j, k \in 1..Len(mutants) :
       /\ mutants[j].fileName # mutants[k].fileName
       /\ IdNumber(mutants[j].fileName, mutants[j]) = 7
       /\ IdNumber(mutants[k].fileName, mutants[k]) = 7
       /\ mutants[j].id # mutants[k].id

\* ---------------------------------------------------------------- command line
\* The two programs with a main: generate-mutants (main at lines 500-542) and
\* claude-test-prompt (main at lines 138-161 of claude-test-prompt.ts).
GenerateMutantsCli == "generate-mutants"

ClaudeTestPromptCli == "claude-test-prompt"

EntryPoints == {GenerateMutantsCli, ClaudeTestPromptCli}

\* Longest argument vector of a run.
MaxArgs == 3

FlagGitDiff == <<"-", "-", "g", "i", "t", "-", "d", "i", "f", "f">>

FlagBase == <<"-", "-", "b", "a", "s", "e">>

FlagOutput == <<"-", "-", "o", "u", "t", "p", "u", "t">>

\* A base reference a user names after --base.
BaseDev == <<"d", "e", "v">>

\* The default value of getChangedFiles' parameter.
BaseMain == <<"m", "a", "i", "n">>

\* A report path a user names after --output.
ReportPath == <<"r", ".", "m", "d">>

\* The report paths main falls back to when nothing follows --output.
DefaultOutputPath(entry) ==
  IF entry = GenerateMutantsCli
  THEN <<"m", "u", "t", "a", "n", "t", "s", ".", "m", "d">>
  ELSE <<"t", "e", "s", "t", "-", "p", "r", "o", "m", "p", "t", ".", "m", "d">>

\* The words an argument vector is made of.
ArgWords == {FlagGitDiff, FlagBase, FlagOutput, PathA, BaseDev, ReportPath}

\* process.argv.slice(2)
ArgVectors == UNION {[1..n -> ArgWords] : n \in 0..MaxArgs}

\* string.startsWith(prefix)
StartsWith(string, prefix) ==
  /\ Len(string) >= Len(prefix)
  /\ SubSeq(string, 1, Len(prefix)) = prefix

\* array.includes(word)
ArrayIncludes(array, word) == \E i \in DOMAIN array : array[i] = word

\* array.indexOf(word), counted from 1; 0 when the word is not there (-1 in
\* the code).
IndexOf(array, word) ==
  IF ArrayIncludes(array, word)
  THEN CHOOSE i \in DOMAIN array : array[i] = word /\ \A j \in 1..i - 1 : array[j] # word
  ELSE 0

\* args[indexOf(flag) + 1] is a non-empty string.
HasValue(array, flag) ==
  /\ ArrayIncludes(array, flag)
  /\ IndexOf(array, flag) + 1 <= Len(array)
  /\ array[IndexOf(array, flag) + 1] # <<>>

\* args[indexOf(flag) + 1]
ValueOf(array, flag) == array[IndexOf(array, flag) + 1]

RECURSIVE NonFlags(_)
\* args.filter((a) => !a.startsWith("--"))
NonFlags(array) ==
  IF array = <<>> THEN <<>>
  ELSE (IF StartsWith(Head(array), <<"-", "-">>) THEN <<>> ELSE <<Head(array)>>)
       \o NonFlags(Tail(array))

\* The options main of generate-mutants builds, lines 503-518. A field the
\* code leaves unset is modelled as the empty list (files), FALSE
\* (fromGitDiff) or hasBaseBranch = FALSE: generateMutants treats the unset
\* and the empty list alike (line 250), and getChangedFiles takes its default
\* for an unset baseBranch.
GenerateMutantsOptions(array) ==
  IF ArrayIncludes(array, FlagGitDiff)
  THEN [files |-> <<>>, fromGitDiff |-> TRUE,
        hasBaseBranch |-> HasValue(array, FlagBase),
        baseBranch |-> IF HasValue(array, FlagBase) THEN ValueOf(array, FlagBase) ELSE <<>>]
  ELSE IF Len(NonFlags(array)) > 0
       THEN [files |-> NonFlags(array), fromGitDiff |-> FALSE,
             hasBaseBranch |-> FALSE, baseBranch |-> <<>>]
       ELSE [files |-> <<>>, fromGitDiff |-> TRUE,
             hasBaseBranch |-> FALSE, baseBranch |-> <<>>]

\* The options main of claude-test-prompt builds, lines 141-150, which
\* generateClaudeTestPrompt hands to generateMutants field by field (lines
\* 104-108).
ClaudeTestPromptOptions(array) ==
  [files |-> NonFlags(array),
   fromGitDiff |-> ArrayIncludes(array, FlagGitDiff) \/ Len(NonFlags(array)) = 0,
   hasBaseBranch |-> ArrayIncludes(array, FlagBase) /\ IndexOf(array, FlagBase) + 1 <= Len(array),
   baseBranch |-> IF ArrayIncludes(array, FlagBase) /\ IndexOf(array, FlagBase) + 1 <= Len(array)
                  THEN ValueOf(array, FlagBase) ELSE <<>>]

\* What `git diff --name-only <base>...HEAD` prints, split at "\n": against
\* main the file a.ts has changed, against dev the file s/b.ts has. For a
\* name that is no reference the first git command fails and the second one,
\* `git diff --name-only HEAD`, prints nothing: the working tree is clean.
ChangeSet(base) ==
  IF base = BaseMain THEN <<<<"a", ".", "t", "s">>, <<>>>>
  ELSE IF base = BaseDev THEN <<<<"s", "/", "b", ".", "t", "s">>, <<>>>>
  ELSE <<<<>>>>

\* The base reference getChangedFiles(options.baseBranch) diffs against.
BaseOf(o) == IF o.hasBaseBranch THEN o.baseBranch ELSE BaseMain

\* The one statement of the source files of a command-line run.
CliFile == SourceFile(<<ReturnStatement(BinaryExpression(IdA, <<">">>, IdB, Sp))>>)

\* What a report file is to generateMutants once it is written: the parser
\* accepts any text, and the markdown of a report may or may not hold a
\* construct one of the passes mutates.
ReportFiles == {ExistingFile(SourceFile(<<>>)), ExistingFile(CliFile)}

\* The file system of a command-line run: the two source files exist, the
\* report path is as `report` says, and the name of the base reference dev
\* is as `dev` says (nothing, or a directory of that name).
CliDisk(report, dev) ==
  [q \in {relativeFileName(PathA), relativeFileName(PathB), ReportPath, BaseDev, BaseMain,
          DefaultOutputPath(GenerateMutantsCli), DefaultOutputPath(ClaudeTestPromptCli)} |->
     IF q \in {relativeFileName(PathA), relativeFileName(PathB)} THEN ExistingFile(CliFile)
     ELSE IF q = ReportPath THEN report
     ELSE IF q = BaseDev THEN dev
     ELSE Missing]

\* One of the programs has been started with an argument vector; the report
\* file may exist from an earlier run, and the working directory may hold a
\* directory with the name of the base reference.
InitCli ==
  /\ args \in ArgVectors
  /\ entryPoint \in EntryPoints
  /\ \E report \in {Missing} \cup ReportFiles, dev \in {Missing, Unreadable} :
       disk = CliDisk(report, dev)
  /\ options = NoOptions
  /\ git = <<>>
  /\ changedFilesCalls = 0
  /\ calls = <<>>
  /\ pc = "main"
  /\ filePaths = <<>>
  /\ fileIdx = 0
  /\ currentId = 0
  /\ allMutants = <<>>
  /\ mutants = <<>>
  /\ groups = <<>>

\* main up to its call of generateMutants (lines 501-520; lines 139-152 of
\* claude-test-prompt.ts and 104-108 of generateClaudeTestPrompt). git
\* becomes what the diff against the base of the options prints.
ParseArgs ==
  /\ pc = "main"
  /\ options' = IF entryPoint = GenerateMutantsCli THEN GenerateMutantsOptions(args)
                ELSE ClaudeTestPromptOptions(args)
  /\ git' = ChangeSet(BaseOf(options'))
  /\ pc' = "start"
  /\ UNCHANGED <<args, entryPoint, disk, changedFilesCalls, calls, filePaths, fileIdx,
                 currentId, allMutants, mutants, groups>>

\* fs.writeFileSync(outputPath, ...): the path holds a report from now on.
WriteFileSync(d, outputPath) ==
  {[d EXCEPT ![relativeFileName(outputPath)] = report] : report \in ReportFiles}

\* The end of main: with --output the report is written to the argument
\* after it, or to the default path when there is none (lines 534-538; lines
\* 154-157 of claude-test-prompt.ts); without --output it is printed.
\* generate-mutants gets here with the grouped mutants, claude-test-prompt
\* with the prompt of any result of generateMutants.
WriteOutput ==
  /\ \/ entryPoint = GenerateMutantsCli /\ pc = "grouped"
     \/ entryPoint = ClaudeTestPromptCli /\ pc = "done"
  /\ IF ArrayIncludes(args, FlagOutput)
     THEN disk' \in WriteFileSync(disk, IF HasValue(args, FlagOutput)
                                        THEN ValueOf(args, FlagOutput)
                                        ELSE DefaultOutputPath(entryPoint))
     ELSE UNCHANGED disk
  /\ pc' = "exit"
  /\ UNCHANGED <<args, entryPoint, options, git, changedFilesCalls, calls, filePaths, fileIdx,
                 currentId, allMutants, mutants, groups>>

\* The user runs the same command again: a new process, on the file system
\* the earlier run has left.
RunAgain ==
  /\ pc \in {"exit", "thrown"}
  /\ entryPoint \in EntryPoints
  /\ pc' = "main"
  /\ options' = NoOptions
  /\ git' = <<>>
  /\ changedFilesCalls' = 0
  /\ filePaths' = <<>>
  /\ fileIdx' = 0
  /\ currentId' = 0
  /\ allMutants' = <<>>
  /\ mutants' = <<>>
  /\ groups' = <<>>
  /\ UNCHANGED <<args, entryPoint, disk, calls>>

NextCli ==
  \/ ParseArgs
  \/ ResolveFiles
  \/ ReturnEmpty
  \/ AddSourceFile
  \/ AddSourceFileThrows
  \/ CollectBinary
  \/ CollectUnary
  \/ CollectBoolean
  \/ CollectConditional
  \/ ReturnAllMutants
  \/ entryPoint = GenerateMutantsCli /\ MainNoMutations
  \/ entryPoint = GenerateMutantsCli /\ MainGroup
  \/ WriteOutput
  \/ RunAgain

SpecCli == InitCli /\ [][NextCli]_vars

\* ---------------------------------------------------------------- C21
\* The arguments that name a source file: no flag, and not the word after
\* --output or --base.
FileArguments(array) ==
  {array[i] : i \in {j \in DOMAIN array :
                       /\ ~StartsWith(array[j], <<"-", "-">>)
                       /\ j > 1 => array[j - 1] \notin {FlagOutput, FlagBase}}}

\* generateMutants has been called with the options of this run.
Called == entryPoint \in EntryPoints /\ pc \notin {"main", "exit"}

\* generateMutants has chosen the candidate files of this run.
Resolved == Called /\ pc # "start"

\* C21: in both command-line programs, the argument after --output and the
\* argument after --base are never among the candidate files handed to
\* generateMutants, whatever the argument vector and whether or not the
\* report exists already; with --git-diff --base B and no file argument the
\* candidate files are those of the change-set against B.
C21_OptionValuesNeverCandidates ==
  /\ Called => \A i \in DOMAIN options.files : options.files[i] \in FileArguments(args)
  /\ Resolved => \A i \in DOMAIN filePaths :
                   \/ filePaths[i] \in FileArguments(args)
                   \/ filePaths[i] \in Range(getChangedFiles(disk, git))
  /\ (/\ Resolved
      /\ ArrayIncludes(args, FlagGitDiff)
      /\ HasValue(args, FlagBase)
      /\ FileArguments(args) = {}) =>
       filePaths = getChangedFiles(disk, ChangeSet(ValueOf(args, FlagBase)))

====
